---- MODULE Spec2Model ----
(***************************************************************************)
(* Batch orchestration of Celery-Strategies-Analysis: the periodic         *)
(* trigger (trigger_batch_execution), the strategy tasks with their retry  *)
(* envelope (execute_strategy_task), the chord barrier, the aggregation    *)
(* callback (process_batch_results), the per-process StrategyManager       *)
(* singleton and the Sink (publish_batch_complete, save_batch_results).    *)
(***************************************************************************)
EXTENDS Integers, Sequences, FiniteSets, TLC

(***************************************************************************)
(* Bounds of the model.                                                    *)
(***************************************************************************)
NumProcs == 2
MaxCycles == 2
MaxTotalTasks == 2
MaxSubscribers == 1
MaxRedeliveries == 1
MaxManagerTasks == 5
MaxSymbols == 3
MaxStrategies == 2
MaxResults == 3
MaxFetchCalls == 2
MaxCalls == 5
MaxTextLen == 5
MaxGetCalls == 2
MaxRegistered == 3
MaxEvents == 3

(***************************************************************************)
(* Program constants.                                                      *)
(***************************************************************************)
\* retry_kwargs={"max_retries": 3} of execute_strategy_task
MaxRetries == 3
\* CACHE_DURATION of data_provider, in seconds
CACHE_DURATION == 300
\* the clock is followed for the lifetime of one cache entry
Horizon == CACHE_DURATION

Procs == 1..NumProcs
SignalTypes == {"BUY", "SELL", "HOLD"}
SymbolLists == {<<>>, <<"BTC-USD">>, <<"BTC-USD", "ETH-USD">>,
                <<"BTC-USD", "ETH-USD", "SOL-USD">>}
StrategyLists == {<<>>, <<"S1">>, <<"S1", "S2">>}

VARIABLES
    cfg_symbols,               \* settings.symbols, as get_symbols() returns it
    cfg_strategies,            \* settings.strategies, as get_strategies() returns it
    mgr_initialized,           \* StrategyManager._initialized, per worker process
    mgr_symbols,               \* StrategyManager._symbols, per worker process
    mgr_strategy_class_paths,  \* StrategyManager._strategy_class_paths, per process
    cycles,                    \* one record per call of trigger_batch_execution
    tasks,                     \* per cycle, the state of each header task of its chord
    chord,                     \* per cycle, the state of the chord and of its callback
    batch,                     \* per cycle, what process_batch_results did
    fn_call,                   \* a direct call of a function: its name and arguments
    fn_ret,                    \* what the call returned, once it has returned
    redis_db,                  \* the Redis database of the data cache: key -> entry
    now,                       \* the clock, in seconds
    calls,                     \* per worker, its call of fetch_historical_data
    writes,                    \* per key, the last SETEX that Redis carried out
                               \* and that no DELETE has undone
    singleton,                 \* the class StrategyManager of one process, its
                               \* objects and the calls made on them
    mongo,                     \* the MongoDBConnection of one process and the
                               \* threads that call get_database
    pool,                      \* core.StrategyManager: its strategies and the
                               \* futures of execute_all_strategies_parallel
    monitor                    \* a TaskMonitor and the summary it last returned

\* the variables of direct calls
fn_vars == <<fn_call, fn_ret>>

\* the variables of the data cache
cache_vars == <<redis_db, now, calls, writes>>

vars == <<cfg_symbols, cfg_strategies, mgr_initialized, mgr_symbols,
          mgr_strategy_class_paths, cycles, tasks, chord, batch, fn_vars, cache_vars,
          singleton, mongo, pool, monitor>>

(***************************************************************************)
(* Helpers on sequences.                                                   *)
(***************************************************************************)
Range(s) == {s[i] : i \in 1..Len(s)}

\* the sequences over S of length n at most
SeqsUpTo(S, n) == UNION {[1..k -> S] : k \in 0..n}

RECURSIVE Pow(_, _)
Pow(b, n) == IF n = 0 THEN 1 ELSE b * Pow(b, n - 1)

Min(a, b) == IF a <= b THEN a ELSE b

RECURSIVE SumSeq(_)
SumSeq(s) == IF s = <<>> THEN 0 ELSE Head(s) + SumSeq(Tail(s))

(***************************************************************************)
(* Result dictionaries.  A result is a record; kind "none" stands for a    *)
(* None or empty entry (falsy), kind "nokey" for a dict without a "symbol" *)
(* key, kind "dict" for a dict with the key (whose value may be "").       *)
(***************************************************************************)
Truthy(r) == r.kind # "none"
HasSymbolKey(r) == r.kind = "dict"
GetSymbol(r) == IF r.kind = "dict" THEN r.symbol ELSE ""

ResultDict(strategy, symbol, signal, price) ==
    [kind |-> "dict", strategy_name |-> strategy, symbol |-> symbol,
     signal_type |-> signal, price |-> price]


(***************************************************************************)
(* Strategy.execute: every strategy of app/strategies wraps its whole body *)
(* in try/except.  fetch_ok tells whether its calls of                     *)
(* fetch_historical_data returned, computed whether the computation that   *)
(* follows them gave a signal: it gives none when the data are too short   *)
(* (PDHLStrategy returns HOLD for fewer than 90 daily candles) and when it *)
(* raises (BBStrategy raises when ta.bbands gives None).  A fetch error    *)
(* and a computation without a signal are both answered with a HOLD result *)
(* of confidence 0 and price 0; otherwise the computed signal is returned. *)
(* The price of a computed signal is round(current_price, 2), a value that *)
(* is not followed here: 1 stands for it, whatever it is.                  *)
(***************************************************************************)
\* a strategy without the try/except around its body
StrategyExecute_nocatch(strategy, symbol, fetch_ok, computed, signal) ==
    IF fetch_ok /\ computed
    THEN [raised |-> FALSE, result |-> ResultDict(strategy, symbol, signal, 1)]
    ELSE [raised |-> TRUE, result |-> ResultDict(strategy, symbol, "HOLD", 0)]

StrategyExecute(strategy, symbol, fetch_ok, computed, signal) ==
    IF ~fetch_ok
    THEN [raised |-> FALSE, result |-> ResultDict(strategy, symbol, "HOLD", 0)]
    ELSE IF ~computed
    THEN [raised |-> FALSE, result |-> ResultDict(strategy, symbol, "HOLD", 0)]
    ELSE [raised |-> FALSE, result |-> ResultDict(strategy, symbol, signal, 1)]

(***************************************************************************)
(* StrategyManager.create_task_signatures_with_numbering                   *)
(***************************************************************************)
\* the loops with the strategies outside and the symbols inside
RECURSIVE StrategyMajor(_, _, _, _)
StrategyMajor(symbols, strategy_class_paths, total_tasks, signatures) ==
    IF strategy_class_paths = <<>> THEN signatures
    ELSE StrategyMajor(symbols, Tail(strategy_class_paths), total_tasks,
             signatures \o [a \in 1..Len(symbols) |->
                 [strategy_class_path |-> Head(strategy_class_paths),
                  symbol |-> symbols[a],
                  task_number |-> Len(signatures) + a,
                  total_tasks |-> total_tasks]])

create_task_signatures_strategy_major(symbols, strategy_class_paths) ==
    StrategyMajor(symbols, strategy_class_paths,
                  Len(symbols) * Len(strategy_class_paths), <<>>)

\* for strategy_path in self._strategy_class_paths: append, task_number += 1
RECURSIVE ForStrategyPath(_, _, _, _)
ForStrategyPath(symbol, strategy_class_paths, total_tasks, st) ==
    IF strategy_class_paths = <<>> THEN st
    ELSE ForStrategyPath(symbol, Tail(strategy_class_paths), total_tasks,
             [signatures |-> Append(st.signatures,
                                 [strategy_class_path |-> Head(strategy_class_paths),
                                  symbol |-> symbol,
                                  task_number |-> st.task_number,
                                  total_tasks |-> total_tasks]),
              task_number |-> st.task_number + 1])

\* for symbol in self._symbols
RECURSIVE ForSymbol(_, _, _, _)
ForSymbol(symbols, strategy_class_paths, total_tasks, st) ==
    IF symbols = <<>> THEN st
    ELSE ForSymbol(Tail(symbols), strategy_class_paths, total_tasks,
             ForStrategyPath(Head(symbols), strategy_class_paths, total_tasks, st))

create_task_signatures_with_numbering(symbols, strategy_class_paths) ==
    LET total_tasks == Len(symbols) * Len(strategy_class_paths)
    IN  ForSymbol(symbols, strategy_class_paths, total_tasks,
                  [signatures |-> <<>>, task_number |-> 1]).signatures

(***************************************************************************)
(* StrategyManager.aggregate_results                                       *)
(***************************************************************************)
\* a lookup that never finds the group of a symbol
IndexOfSymbol_never(groups, symbol) == 0

\* a lookup that finds the group of a symbol only when it is the last group
IndexOfSymbol_last(groups, symbol) ==
    IF groups # <<>> /\ groups[Len(groups)].symbol = symbol THEN Len(groups) ELSE 0

\* symbol in aggregated: the position of the entry of the symbol, 0 for none
IndexOfSymbol(groups, symbol) ==
    IF \E i \in 1..Len(groups) : groups[i].symbol = symbol
    THEN CHOOSE i \in 1..Len(groups) : groups[i].symbol = symbol
    ELSE 0

\* a grouping that puts a new group before the groups it has
RECURSIVE GroupBySymbol_prepending(_, _)
GroupBySymbol_prepending(items, aggregated) ==
    IF items = <<>> THEN aggregated
    ELSE LET item == Head(items)
             symbol == GetSymbol(item)
             k == IndexOfSymbol(aggregated, symbol)
         IN  IF symbol = "" THEN GroupBySymbol_prepending(Tail(items), aggregated)
             ELSE IF k = 0
                  THEN GroupBySymbol_prepending(Tail(items),
                           <<[symbol |-> symbol, strategies |-> <<item>>]>> \o aggregated)
                  ELSE GroupBySymbol_prepending(Tail(items),
                           [aggregated EXCEPT ![k].strategies = Append(@, item)])

\* the loop "for item in valid_results" over a dict, which keeps its keys in
\* the order of their insertion
RECURSIVE GroupBySymbol(_, _)
GroupBySymbol(items, aggregated) ==
    IF items = <<>> THEN aggregated
    ELSE LET item == Head(items)
             symbol == GetSymbol(item)
             k == IndexOfSymbol(aggregated, symbol)
         IN  IF symbol = "" THEN GroupBySymbol(Tail(items), aggregated)
             ELSE IF k = 0
                  THEN GroupBySymbol(Tail(items),
                           Append(aggregated, [symbol |-> symbol, strategies |-> <<item>>]))
                  ELSE GroupBySymbol(Tail(items),
                           [aggregated EXCEPT ![k].strategies = Append(@, item)])

aggregate_results(flat_results, symbols, strategy_class_paths) ==
    LET valid_results == SelectSeq(flat_results, Truthy)
        unique_symbols == {valid_results[i].symbol :
                              i \in {j \in 1..Len(valid_results) : HasSymbolKey(valid_results[j])}}
        expected == Len(symbols) * Len(strategy_class_paths)
    IN  [summary |-> [total_symbols |-> Cardinality(unique_symbols),
                      total_strategies |-> Len(strategy_class_paths),
                      total_results |-> Len(valid_results),
                      expected_results |-> expected,
                      failed_results |-> expected - Len(valid_results)],
         results |-> GroupBySymbol(valid_results, <<>>)]

\* a method that drops the None entries from the list it was given
aggregate_results_leaves_filtered(objects) ==
    [objects EXCEPT !.flat_results = SelectSeq(@, Truthy)]

\* the objects that aggregate_results works on, as a call leaves them: the
\* list flat_results it was given and the lists _symbols and
\* _strategy_class_paths of the manager.  valid_results is a new list, the
\* groups are new dicts and new lists to which the items are appended, and
\* the lists of the manager are only measured with len
aggregate_results_leaves(objects) == objects

(***************************************************************************)
(* _has_actionable_signal                                                  *)
(***************************************************************************)
\* a gate that looks for BUY only
has_actionable_signal_buy_only(batch_result) ==
    \E i \in 1..Len(batch_result.results) :
        \E j \in 1..Len(batch_result.results[i].strategies) :
            batch_result.results[i].strategies[j].signal_type = "BUY"

has_actionable_signal(batch_result) ==
    \E i \in 1..Len(batch_result.results) :
        \E j \in 1..Len(batch_result.results[i].strategies) :
            batch_result.results[i].strategies[j].signal_type # "HOLD"


(***************************************************************************)
(* publish_batch_complete: publish_message may raise (Redis unreachable);  *)
(* the error is caught and reported in the returned dictionary.            *)
(***************************************************************************)
\* publish_batch_complete raising its error again, as save_batch_results does
publish_batch_complete_reraise(publish_ok, subscriber_count) ==
    IF publish_ok
    THEN [raised |-> FALSE, status |-> "success", subscriber_count |-> subscriber_count]
    ELSE [raised |-> TRUE, status |-> "failed", subscriber_count |-> 0]

publish_batch_complete(publish_ok, subscriber_count) ==
    IF publish_ok
    THEN [raised |-> FALSE, status |-> "success", subscriber_count |-> subscriber_count]
    ELSE [raised |-> FALSE, status |-> "failed", subscriber_count |-> 0]

\* an aggregate that records no subscriber
with_pubsub_zero(aggregated_result, pubsub_response) ==
    [summary |-> aggregated_result.summary, results |-> aggregated_result.results,
     pubsub |-> 0]

\* aggregated_result["pubsub"] = pubsub_response.get("subscriber_count", 0)
with_pubsub(aggregated_result, pubsub_response) ==
    [summary |-> aggregated_result.summary, results |-> aggregated_result.results,
     pubsub |-> pubsub_response.subscriber_count]

(***************************************************************************)
(* save_batch_results: insert_one may raise (MongoDB unreachable); the     *)
(* error is logged and raised again.                                       *)
(***************************************************************************)
save_batch_results(save_ok, inserted_id) ==
    IF save_ok
    THEN [raised |-> FALSE, status |-> "success", inserted_id |-> inserted_id]
    ELSE [raised |-> TRUE, status |-> "failed", inserted_id |-> 0]

(***************************************************************************)
(* The chord of trigger_batch_execution.  A header task that ends (SUCCESS *)
(* or FAILURE; a RETRY is not an end) reports to the chord; when the last  *)
(* one has reported, the callback is sent if every header task succeeded,  *)
(* and is failed with a ChordError, without being run, otherwise.          *)
(***************************************************************************)
Terminal(t) == t.state \in {"SUCCESS", "FAILURE"}

AllTerminal(ts) == \A i \in 1..Len(ts) : Terminal(ts[i])

\* a barrier released by the first header task that ends
on_chord_part_return_first(ts) ==
    IF \E i \in 1..Len(ts) : Terminal(ts[i]) THEN "callback_queued" ELSE "header"

\* a barrier that sends the callback whether or not a header task failed
on_chord_part_return_nopropagate(ts) ==
    IF AllTerminal(ts) THEN "callback_queued" ELSE "header"

on_chord_part_return(ts) ==
    IF ~AllTerminal(ts) THEN "header"
    ELSE IF \E i \in 1..Len(ts) : ts[i].state = "FAILURE" THEN "chord_error"
         ELSE "callback_queued"

\* the list the chord hands to its callback, in header order
HeaderResults(ts) ==
    [i \in 1..Len(ts) |->
        IF ts[i].state = "SUCCESS" THEN ts[i].result[1] ELSE [kind |-> "nokey"]]

(***************************************************************************)
(* The data cache of data_provider.  Workers are two tasks that call       *)
(* fetch_historical_data at the same time; a request is the (symbol,       *)
(* period, interval) of a call, with the period as it is formatted: the    *)
(* strategies pass 5, 30 and 180, and also the string "5d".                *)
(***************************************************************************)
Workers == {1, 2}

IntPeriods == {"5", "30", "180"}

CacheRequests ==
    {[symbol |-> "BTC-USD", period |-> "30", interval |-> "15m"],
     [symbol |-> "BTC-USD", period |-> "5", interval |-> "15m"],
     [symbol |-> "BTC-USD", period |-> "5d", interval |-> "5m"]}

\* a key without the period
get_cache_key_no_period(symbol, period, interval) ==
    "stock_data:" \o symbol \o ":" \o interval

\* _get_cache_key: f"stock_data:{symbol}:{period}:{interval}"
get_cache_key(symbol, period, interval) ==
    "stock_data:" \o symbol \o ":" \o period \o ":" \o interval

CacheKeys ==
    {get_cache_key(r.symbol, r.period, r.interval) : r \in CacheRequests} \cup
    {get_cache_key_no_period(r.symbol, r.period, r.interval) : r \in CacheRequests}

\* pickle.dumps of a DataFrame: the stream of what the object holds, its
\* index, its rows (here what they were built from) and its columns
pickle_dumps(data) ==
    <<"DataFrame", data.index, data.symbol, data.period, data.interval, data.end_time,
      data.added>>

\* pickle.loads: a new DataFrame built from the stream
pickle_loads(bytes) ==
    [symbol |-> bytes[3], period |-> bytes[4], interval |-> bytes[5],
     end_time |-> bytes[6], index |-> bytes[2], added |-> bytes[7]]

NoEntry == [present |-> FALSE]

\* a GET that returns an entry whatever its age
redis_get_no_expiry(db, key, at) ==
    IF db[key].present THEN <<db[key].value>> ELSE <<>>

\* Redis GET at time at: the value of the key if it is set and has not expired
redis_get(db, key, at) ==
    IF db[key].present /\ at < db[key].expires_at THEN <<db[key].value>> ELSE <<>>

\* a SETEX that leaves a key that is set as it is
redis_setex_if_absent(db, key, seconds, value, at) ==
    IF db[key].present /\ at < db[key].expires_at THEN db
    ELSE [db EXCEPT ![key] = [present |-> TRUE, value |-> value, expires_at |-> at + seconds]]

\* Redis SETEX at time at: sets the key, replacing what it held
redis_setex(db, key, seconds, value, at) ==
    [db EXCEPT ![key] = [present |-> TRUE, value |-> value, expires_at |-> at + seconds]]

\* Redis KEYS "stock_data:*" at time at: the keys that are set and have not
\* expired
redis_keys(db, at) == {k \in DOMAIN db : db[k].present /\ at < db[k].expires_at}

\* Redis DELETE of the keys given
redis_delete(db, keys) == [k \in DOMAIN db |-> IF k \in keys THEN NoEntry ELSE db[k]]

\* a lookup that does not test _redis_client
get_from_cache_untested(client, db, cache_key, at, redis_ok) ==
    IF ~redis_ok THEN <<>>
    ELSE LET cached_data == redis_get(db, cache_key, at)
         IN  IF cached_data # <<>> THEN <<pickle_loads(cached_data[1])>> ELSE <<>>

\* _get_from_cache: the unpickled value, None (<<>>) for a miss, for a Redis
\* error and when _redis_client is None (client is FALSE)
get_from_cache(client, db, cache_key, at, redis_ok) ==
    IF ~client THEN <<>>
    ELSE IF ~redis_ok THEN <<>>
    ELSE LET cached_data == redis_get(db, cache_key, at)
         IN  IF cached_data # <<>> THEN <<pickle_loads(cached_data[1])>> ELSE <<>>

\* _save_to_cache: the database after the call; nothing is stored when
\* _redis_client is None, and a Redis error is swallowed
save_to_cache(client, db, cache_key, data, at, redis_ok) ==
    IF ~client THEN db
    ELSE IF ~redis_ok THEN db
    ELSE redis_setex(db, cache_key, CACHE_DURATION, pickle_dumps(data), at)

\* the DataFrame built from the candles of a request whose end_time is at,
\* sorted and indexed by DateTime, with the columns Date and Time
\* added lists the columns that a caller has added since
Dataset(request, at) ==
    [symbol |-> request.symbol, period |-> request.period,
     interval |-> request.interval, end_time |-> at, index |-> "DateTime",
     added |-> <<>>]

\* the DataFrame as pd.DataFrame(rows) made it, before the processing of its
\* times: the rows in the order of the response, numbered from 0
RawDataset(request, at) ==
    [symbol |-> request.symbol, period |-> request.period,
     interval |-> request.interval, end_time |-> at, index |-> "RangeIndex",
     added |-> <<>>]

\* what one request to the API can lead to: "good" is a response with status
\* 200, success and candles whose DataFrame is built and indexed; "partial"
\* is such a response for which df is assigned and the processing of its
\* times then raises; "bad" is a bad status, success false, no candle, a
\* timeout, or an exception before df is assigned
ApiResponses == {"good", "partial", "bad"}

\* a loop that sends one request only
ForAttempt_once(responses, attempt) ==
    [ok |-> responses[attempt + 1] # "bad", attempts |-> attempt + 1,
     seen |-> <<responses[attempt + 1] = "good">>, waits |-> <<>>,
     indexed |-> responses[attempt + 1] = "good"]

\* the loop "for attempt in range(3)" over the responses of the API: it ends
\* at the first good response; after an attempt that failed it sleeps for
\* 2 ** attempt seconds unless it was the last.  df is assigned before the
\* processing of the times can raise, inside the same try, and stays
\* assigned when a later attempt fails: ok tells that df is not None after
\* the loop (the call raises when it is None), indexed that df is the
\* DataFrame of a good response.  attempts counts the requests sent, seen
\* tells of each whether it succeeded, and waits lists the sleeps
RECURSIVE ForAttempt(_, _)
ForAttempt(responses, attempt) ==
    IF attempt >= 3
    THEN [ok |-> FALSE, attempts |-> 3, seen |-> <<>>, waits |-> <<>>, indexed |-> FALSE]
    ELSE IF responses[attempt + 1] = "good"
    THEN [ok |-> TRUE, attempts |-> attempt + 1, seen |-> <<TRUE>>, waits |-> <<>>,
          indexed |-> TRUE]
    ELSE LET rest == ForAttempt(responses, attempt + 1)
             wait_time == Pow(2, attempt)
         IN  [rest EXCEPT !.ok = @ \/ responses[attempt + 1] = "partial",
                          !.seen = <<FALSE>> \o @,
                          !.waits = (IF attempt < 2 THEN <<wait_time>> ELSE <<>>) \o @]

\* client tells whether the process of the worker has a _redis_client
\* n counts its calls of fetch_historical_data
NoCallYet == [pc |-> "idle", n |-> 0, client |-> TRUE]

CacheIdle ==
    /\ redis_db = [k \in CacheKeys |-> NoEntry]
    /\ now = 0
    /\ calls = [w \in Workers |-> NoCallYet]
    /\ writes = [k \in CacheKeys |-> NoEntry]

(***************************************************************************)
(* The class StrategyManager: _instance is the object of the singleton (0  *)
(* for None), _initialized the class flag; objects are the instances made  *)
(* so far, handles the references that the constructions returned, log the *)
(* calls made.                                                             *)
(***************************************************************************)
NoManager == [instance |-> 0, initialized |-> FALSE, objects |-> <<>>,
              handles |-> <<>>, log |-> <<>>]

\* the object that super().__new__(cls) returns: it has no attribute yet
BareObject == [attrs |-> FALSE, strategy_class_paths |-> <<>>, symbols |-> <<>>]

\* __new__: a new object only when there is no _instance
StrategyManager_new(sm) ==
    IF sm.instance = 0
    THEN [sm EXCEPT !.objects = Append(@, BareObject), !.instance = Len(sm.objects) + 1]
    ELSE sm

\* an __init__ that sets the lists at every construction
StrategyManager_init_always(sm, self) ==
    [sm EXCEPT !.objects[self] =
                   [attrs |-> TRUE, strategy_class_paths |-> <<>>, symbols |-> <<>>],
               !.initialized = TRUE]

\* __init__: the lists are set only while the class is not initialised
StrategyManager_init(sm, self) ==
    IF ~sm.initialized
    THEN [sm EXCEPT !.objects[self] =
                        [attrs |-> TRUE, strategy_class_paths |-> <<>>, symbols |-> <<>>],
                    !.initialized = TRUE]
    ELSE sm

\* StrategyManager(): __new__, then __init__ on the object it returned
StrategyManager(sm) ==
    LET made == StrategyManager_new(sm)
        self == made.instance
        ready == StrategyManager_init(made, self)
    IN  [ready EXCEPT !.handles = Append(@, self)]

\* self._strategy_class_paths.extend(strategy_class_paths)
add_strategies(sm, self, strategy_class_paths) ==
    [sm EXCEPT !.objects[self].strategy_class_paths = @ \o strategy_class_paths]

\* self._symbols.extend(symbols)
add_symbols(sm, self, symbols) ==
    [sm EXCEPT !.objects[self].symbols = @ \o symbols]

reset_instance(sm) == [sm EXCEPT !.instance = 0, !.initialized = FALSE]

(***************************************************************************)
(* MongoDBConnection.  A MongoClient is known by its number, in the order  *)
(* of construction, and a Database object by its rank, in the order of the *)
(* assignments to _db (0 stands for None).  client is _client and clients  *)
(* counts the MongoClient objects built; db is _db, handles[k] is the      *)
(* client that the Database of rank k belongs to, and connects counts the  *)
(* assignments to _db; indexed holds the clients on which create_index was *)
(* called; threads gives the position of each thread in get_database, the  *)
(* client it is pinging and what it returned.                              *)
(***************************************************************************)
Threads == {1, 2}

NoConnection ==
    [client |-> 0, clients |-> 0, db |-> 0, handles |-> <<>>, connects |-> 0,
     indexed |-> {},
     threads |-> [t \in Threads |-> [pc |-> "idle", n |-> 0]]]

\* thread t leaves its call with the exception that _connect raised again
Raised(m, t) == [m EXCEPT !.threads[t] = [pc |-> "done", n |-> @.n, outcome |-> "raised"]]

(***************************************************************************)
(* core.StrategyManager.  A strategy is registered by name, and the same   *)
(* one may be registered twice; a future is "pending" until a worker       *)
(* thread of the executor takes it, "running" while strategy.execute runs, *)
(* and then "ok" or "raised".  A StrategyResult is [strategy_name, of],    *)
(* "of" being the position of the registration whose execute returned it.  *)
(* pc is "none" before the constructor, "idle" after a call that returned  *)
(* no list, "collecting" and then "returned" for                           *)
(* execute_all_strategies_parallel, "gathering" and then "gathered" for    *)
(* execute_all_strategies_async; ret is the list that the last of these    *)
(* two returned, removed what the last remove_strategy returned and raised *)
(* whether the last add_strategy or add_strategy_instance raised.          *)
(***************************************************************************)
StrategyNames == {"S1", "S2"}
\* an object that is not a BaseStrategy, or a class that makes such objects
NotAStrategy == "object"
WorkerCounts == {1, 2}
Done == {"ok", "raised"}

NoPool ==
    [pc |-> "none", max_workers |-> 1, strategies |-> <<>>, futures |-> <<>>,
     yielded |-> {}, results |-> <<>>, ret |-> <<>>, removed |-> FALSE,
     raised |-> FALSE]

\* the manager between two calls of its methods
Quiet(p) == p.pc \in {"idle", "returned", "gathered"}

\* the manager at the start of a call: what the call before left behind,
\* other than self.strategies and self.max_workers, is gone
AtCall(p) ==
    [p EXCEPT !.pc = "idle", !.futures = <<>>, !.yielded = {}, !.results = <<>>,
              !.ret = <<>>, !.removed = FALSE, !.raised = FALSE]

\* self.strategies.pop(i) for the first i with strategies[i].name = strategy_name
PopFirst(strategies, strategy_name) ==
    LET i == CHOOSE j \in DOMAIN strategies :
                 /\ strategies[j] = strategy_name
                 /\ \A k \in 1..(j - 1) : strategies[k] # strategy_name
    IN  SubSeq(strategies, 1, i - 1) \o SubSeq(strategies, i + 1, Len(strategies))

\* the loop over completed_tasks: the results of the tasks that did not
\* raise, in the order of self.strategies
Gathered(p) ==
    SelectSeq([i \in DOMAIN p.futures |-> [strategy_name |-> p.strategies[i], of |-> i]],
              LAMBDA r : p.futures[r.of] = "ok")

\* the body of "for future in as_completed(...)" that stops the call at the
\* first failed future
collect_until_failure(p, i) ==
    IF p.futures[i] = "ok"
    THEN [p EXCEPT !.yielded = @ \cup {i},
                   !.results = Append(@, [strategy_name |-> p.strategies[i], of |-> i])]
    ELSE [p EXCEPT !.pc = "returned", !.ret = p.results]

\* the body of "for future in as_completed(...)": result = future.result();
\* results.append(result), or the exception is logged
collect(p, i) ==
    IF p.futures[i] = "ok"
    THEN [p EXCEPT !.yielded = @ \cup {i},
                   !.results = Append(@, [strategy_name |-> p.strategies[i], of |-> i])]
    ELSE [p EXCEPT !.yielded = @ \cup {i}]

Running(p) == {i \in DOMAIN p.futures : p.futures[i] = "running"}
Pending(p) == {i \in DOMAIN p.futures : p.futures[i] = "pending"}

(***************************************************************************)
(* TaskMonitor.  An event is [event_type, batch_id, result]; a result is   *)
(* None or a dict, of which the model keeps whether it is empty, whether   *)
(* it has the key 'success' and its value, and whether the constructor of *)
(* TaskResult accepts it.                                                  *)
(***************************************************************************)
BatchIds == {"b1", "b2"}

None == [is_none |-> TRUE, empty |-> FALSE, has_success |-> FALSE, success |-> FALSE,
         valid |-> FALSE]
Dict(empty, has_success, success, valid) ==
    [is_none |-> FALSE, empty |-> empty, has_success |-> has_success, success |-> success,
     valid |-> valid]

EventResults ==
    {None,
     Dict(TRUE, FALSE, FALSE, FALSE),      \* {}
     Dict(FALSE, TRUE, TRUE, TRUE),        \* a complete result, success True
     Dict(FALSE, TRUE, FALSE, TRUE),       \* a complete result, success False
     Dict(FALSE, TRUE, TRUE, FALSE),       \* success True, a field missing or invalid
     Dict(FALSE, FALSE, FALSE, FALSE)}     \* no key 'success'

TaskEvents ==
    [event_type : {"created"}, batch_id : BatchIds, result : {None}]
        \cup [event_type : {"completed"}, batch_id : BatchIds, result : EventResults]

\* bool(result)
ResultTruthy(result) == ~result.is_none /\ ~result.empty
\* result.get('success', False)
ResultSuccess(result) == result.has_success /\ result.success

BatchStatistics(batch_id) ==
    [batch_id |-> batch_id, created_count |-> 0, completed_count |-> 0,
     success_count |-> 0, failure_count |-> 0]

TaskMonitor_init ==
    [created_tasks |-> <<>>, completed_tasks |-> <<>>, results |-> <<>>,
     batch_stats |-> <<>>, raised |-> 0, summary |-> <<>>]

WithBatch(batch_stats, batch_id) ==
    IF batch_id \in DOMAIN batch_stats THEN batch_stats
    ELSE (batch_id :> BatchStatistics(batch_id)) @@ batch_stats

\* _update_batch_stats that counts a completed task only when it succeeded
update_batch_stats_success_only(batch_stats, batch_id, event_type, result) ==
    LET stats == WithBatch(batch_stats, batch_id)
    IN  IF event_type = "created"
        THEN [stats EXCEPT ![batch_id].created_count = @ + 1]
        ELSE IF event_type = "completed"
        THEN IF ResultTruthy(result) /\ ResultSuccess(result)
             THEN [stats EXCEPT ![batch_id].completed_count = @ + 1,
                                ![batch_id].success_count = @ + 1]
             ELSE [stats EXCEPT ![batch_id].completed_count = @ + 1]
        ELSE stats

update_batch_stats(batch_stats, batch_id, event_type, result) ==
    LET stats == WithBatch(batch_stats, batch_id)
    IN  IF event_type = "created"
        THEN [stats EXCEPT ![batch_id].created_count = @ + 1]
        ELSE IF event_type = "completed"
        THEN IF ResultTruthy(result) /\ ResultSuccess(result)
             THEN [stats EXCEPT ![batch_id].completed_count = @ + 1,
                                ![batch_id].success_count = @ + 1]
             ELSE [stats EXCEPT ![batch_id].completed_count = @ + 1,
                                ![batch_id].failure_count = @ + 1]
        ELSE stats

\* the monitor after notify(event); raised counts the calls that TaskResult
\* ended with a validation error
notify(m, event) ==
    IF event.event_type = "created"
    THEN [m EXCEPT !.created_tasks = Append(@, event),
                   !.batch_stats = update_batch_stats(@, event.batch_id, "created", None)]
    ELSE IF event.event_type = "completed"
    THEN LET counted ==
                 [m EXCEPT !.completed_tasks = Append(@, event),
                           !.batch_stats = update_batch_stats(@, event.batch_id, "completed",
                                                              event.result)]
         IN  IF ResultTruthy(event.result)
             THEN IF event.result.valid
                  THEN [counted EXCEPT !.results = Append(@, event.result)]
                  ELSE [counted EXCEPT !.raised = @ + 1]
             ELSE counted
    ELSE m

RECURSIVE SumCount(_, _, _)
\* sum(stat.<count> for stat in batch_stats.values()), over the batches in ids
SumCount(batch_stats, count, ids) ==
    IF ids = {} THEN 0
    ELSE LET b == CHOOSE x \in ids : TRUE
         IN  batch_stats[b][count] + SumCount(batch_stats, count, ids \ {b})

get_summary(m) ==
    [total_created |-> Len(m.created_tasks),
     total_completed |-> Len(m.completed_tasks),
     total_successful |-> SumCount(m.batch_stats, "success_count", DOMAIN m.batch_stats),
     total_failed |-> SumCount(m.batch_stats, "failure_count", DOMAIN m.batch_stats),
     batch_statistics |-> m.batch_stats,
     results |-> m.results]

NewTask == [state |-> "PENDING", retries |-> 0, fetch |-> "none", result |-> <<>>]

NotRun == [ran |-> FALSE, results |-> <<>>, aggregated |-> <<>>,
           sink |-> <<>>, ret |-> [status |-> "none"]]

\* Worker processes that have not built their StrategyManager yet cannot be
\* told apart: of those, only the first one is considered for the next task.
Eligible(p) == mgr_initialized[p] \/ \A r \in Procs : r < p => mgr_initialized[r]

\* no function is called directly
NoCall == [fn |-> "none"]

\* number of header tasks submitted so far, over all cycles
TotalTasks == SumSeq([c \in 1..Len(cycles) |-> Len(tasks[c])])

Init ==
    /\ cfg_symbols \in SymbolLists
    /\ cfg_strategies \in StrategyLists
    /\ mgr_initialized = [p \in Procs |-> FALSE]
    /\ mgr_symbols = [p \in Procs |-> <<>>]
    /\ mgr_strategy_class_paths = [p \in Procs |-> <<>>]
    /\ cycles = <<>>
    /\ tasks = <<>>
    /\ chord = <<>>
    /\ batch = <<>>
    /\ singleton = NoManager
    /\ mongo = NoConnection
    /\ pool = NoPool
    /\ monitor = TaskMonitor_init
    /\ fn_call = NoCall
    /\ fn_ret = <<>>
    /\ CacheIdle

(***************************************************************************)
(* trigger_batch_execution, run by worker process p.  StrategyManager() is *)
(* the singleton of the process: add_symbols and add_strategies extend the *)
(* lists it already holds.  max_total_tasks caps the number of tasks that   *)
(* the cycles of a behaviour submit in all.  chord(tasks_sigs)(callback)   *)
(* may raise (the broker is unreachable): the error is logged and raised   *)
(* again, after the lists of the manager have been extended; the cycle of  *)
(* such a call has the signatures that were built, no chord and no task.   *)
(***************************************************************************)
\* a skipped result that carries a count of tasks
trigger_return_counted(tasks_sigs) ==
    IF tasks_sigs = <<>>
    THEN [status |-> "skipped", tasks_count |-> 0]
    ELSE [status |-> "triggered", tasks_count |-> Len(tasks_sigs)]

\* the dictionary that trigger_batch_execution returns
trigger_return(tasks_sigs) ==
    IF tasks_sigs = <<>>
    THEN [status |-> "skipped", reason |-> "empty_batch"]
    ELSE [status |-> "triggered", tasks_count |-> Len(tasks_sigs)]

trigger_batch_execution(p, max_total_tasks) ==
    /\ Len(cycles) < MaxCycles
    /\ Eligible(p)
    /\ \E submit_ok \in BOOLEAN :
       LET symbols == mgr_symbols[p] \o cfg_symbols
           paths == mgr_strategy_class_paths[p] \o cfg_strategies
           tasks_sigs == create_task_signatures_with_numbering(symbols, paths)
           submitted == IF submit_ok THEN tasks_sigs ELSE <<>>
       IN  /\ Len(tasks_sigs) + TotalTasks <= max_total_tasks
           \* nothing is submitted for an empty batch
           /\ tasks_sigs = <<>> => submit_ok
           /\ mgr_initialized' = [mgr_initialized EXCEPT ![p] = TRUE]
           /\ mgr_symbols' = [mgr_symbols EXCEPT ![p] = symbols]
           /\ mgr_strategy_class_paths' = [mgr_strategy_class_paths EXCEPT ![p] = paths]
           /\ cycles' = Append(cycles,
                  [sigs |-> tasks_sigs,
                   ret |-> IF submit_ok THEN trigger_return(tasks_sigs)
                           ELSE [status |-> "raised"]])
           /\ tasks' = Append(tasks, [i \in 1..Len(submitted) |-> NewTask])
           /\ chord' = Append(chord, IF submitted = <<>> THEN "none" ELSE "header")
           /\ batch' = Append(batch, NotRun)
    /\ UNCHANGED <<cfg_symbols, cfg_strategies, fn_vars, cache_vars,
                   singleton, mongo, pool, monitor>>

(***************************************************************************)
(* One execution of execute_strategy_task for header task i of cycle c.    *)
(* A task record is the message of the task while it is PENDING or in      *)
(* RETRY (retries is request.retries, the number of executions that raised *)
(* so far) and its entry in the result backend once it is in SUCCESS or    *)
(* FAILURE; fetch tells how the data fetch of the last execution went.     *)
(***************************************************************************)
\* the body of the task: load the strategy class, run it, return its dict
TaskBody(sig, load_ok, fetch_ok, computed, signal) ==
    IF ~load_ok THEN [raised |-> TRUE, fetch |-> "none", result |-> <<>>]
    ELSE LET r == StrategyExecute(sig.strategy_class_path, sig.symbol, fetch_ok,
                                  computed, signal)
             f == IF fetch_ok THEN "ok" ELSE "error"
         IN  IF r.raised THEN [raised |-> TRUE, fetch |-> f, result |-> <<>>]
             ELSE [raised |-> FALSE, fetch |-> f, result |-> <<r.result>>]

\* a retry test that is off by one
AfterRaise_offbyone(t) ==
    IF t.retries <= MaxRetries
    THEN [t EXCEPT !.state = "RETRY", !.retries = @ + 1]
    ELSE [t EXCEPT !.state = "FAILURE", !.retries = 0]

\* autoretry_for=(Exception,): the task after an execution whose body raised
AfterRaise(t) ==
    IF t.retries < MaxRetries
    THEN [t EXCEPT !.state = "RETRY", !.retries = @ + 1]
    ELSE [t EXCEPT !.state = "FAILURE", !.retries = 0]

\* the task after an execution that returned result
AfterReturn(t, result) ==
    [t EXCEPT !.state = "SUCCESS", !.retries = 0, !.result = result]

execute_strategy_task(c, i) ==
    /\ c \in 1..Len(cycles)
    /\ i \in 1..Len(tasks[c])
    /\ chord[c] = "header"
    /\ tasks[c][i].state \in {"PENDING", "RETRY"}
    /\ \E load_ok, fetch_ok, computed \in BOOLEAN, signal \in SignalTypes :
          \* an input that the execution does not read is fixed
          /\ ~load_ok => fetch_ok
          /\ ~(load_ok /\ fetch_ok) => computed
          /\ ~(load_ok /\ fetch_ok /\ computed) => signal = "HOLD"
          /\ LET out == TaskBody(cycles[c].sigs[i], load_ok, fetch_ok, computed, signal)
                 t0 == [tasks[c][i] EXCEPT !.fetch = out.fetch]
                 t == IF out.raised THEN AfterRaise(t0) ELSE AfterReturn(t0, out.result)
                 ts == [tasks[c] EXCEPT ![i] = t]
             IN  /\ tasks' = [tasks EXCEPT ![c] = ts]
                 /\ chord' = [chord EXCEPT ![c] = on_chord_part_return(ts)]
    /\ UNCHANGED <<cfg_symbols, cfg_strategies, mgr_initialized, mgr_symbols,
                   mgr_strategy_class_paths, cycles, batch, fn_vars, cache_vars,
                   singleton, mongo, pool, monitor>>

(***************************************************************************)
(* process_batch_results, the callback of the chord of cycle c, run by     *)
(* worker process q.  sink is the log of the Sink calls made for the batch *)
(* of cycle c, to which the callback appends its own.  The callback waits  *)
(* for MongoDB after publish_batch_complete has returned, while the other  *)
(* processes go on: process_batch_results is the run up to the return of   *)
(* publish_batch_complete, after which the batch is "running" on q, and    *)
(* process_batch_results_save is the rest of it.  ran tells that a run of  *)
(* the callback has ended.                                                 *)
(***************************************************************************)
Running_on(q) == [status |-> "running", proc |-> q]

process_batch_results(c, q) ==
    /\ c \in 1..Len(cycles)
    /\ chord[c] = "callback_queued"
    /\ batch[c].ret.status = "none"
    /\ Eligible(q)
    /\ \E publish_ok \in BOOLEAN, subscriber_count \in 0..MaxSubscribers :
          \* a publish that fails reaches no subscriber
          /\ ~publish_ok => subscriber_count = 0
          /\ LET results == HeaderResults(tasks[c])
                 valid_results == SelectSeq(results, Truthy)
                 aggregated_result == aggregate_results(valid_results, mgr_symbols[q],
                                                        mgr_strategy_class_paths[q])
                 has_signals == has_actionable_signal(aggregated_result)
                 payload == [summary |-> aggregated_result.summary,
                             total_results |-> Len(aggregated_result.results),
                             results |-> aggregated_result.results]
                 pubsub_response == publish_batch_complete(publish_ok, subscriber_count)
                 publish_call == [op |-> "publish_batch_complete", arg |-> payload,
                                  subscriber_count |-> pubsub_response.subscriber_count,
                                  raised |-> pubsub_response.raised,
                                  status |-> pubsub_response.status]
                 run == [results |-> results, aggregated |-> <<aggregated_result>>]
             IN  IF ~has_signals
                 THEN \* nothing is published: the inputs of the publish are fixed
                      /\ publish_ok /\ subscriber_count = 0
                      /\ batch' = [batch EXCEPT ![c] =
                             run @@ [ran |-> TRUE, sink |-> batch[c].sink,
                                     ret |-> [status |-> "skipped", batch_id |-> 0,
                                              summary |-> aggregated_result.summary]]]
                      /\ chord' = [chord EXCEPT ![c] = "callback_success"]
                 ELSE IF pubsub_response.raised
                 THEN /\ batch' = [batch EXCEPT ![c] =
                             run @@ [ran |-> TRUE, sink |-> Append(batch[c].sink, publish_call),
                                     ret |-> [status |-> "raised"]]]
                      /\ chord' = [chord EXCEPT ![c] = "callback_failure"]
                 ELSE /\ batch' = [batch EXCEPT ![c] =
                             run @@ [ran |-> FALSE, sink |-> Append(batch[c].sink, publish_call),
                                     ret |-> Running_on(q)]]
                      /\ UNCHANGED chord
    /\ mgr_initialized' = [mgr_initialized EXCEPT ![q] = TRUE]
    /\ UNCHANGED <<cfg_symbols, cfg_strategies, mgr_symbols, mgr_strategy_class_paths,
                   cycles, tasks, fn_vars, cache_vars,
                   singleton, mongo, pool, monitor>>

\* the Sink call of save_batch_results for the running batch of cycle c
SaveCall(c, saved) ==
    LET published == batch[c].sink[Len(batch[c].sink)]
        document == with_pubsub(batch[c].aggregated[1], published)
    IN  [op |-> "save_batch_results", arg |-> document,
         raised |-> saved.raised, status |-> saved.status]

process_batch_results_save(c) ==
    /\ c \in 1..Len(cycles)
    /\ chord[c] = "callback_queued"
    /\ batch[c].ret.status = "running"
    /\ \E save_ok \in BOOLEAN :
          LET saved == save_batch_results(save_ok, c)
              sink == Append(batch[c].sink, SaveCall(c, saved))
          IN  IF saved.raised
              THEN /\ batch' = [batch EXCEPT ![c].ran = TRUE, ![c].sink = sink,
                                             ![c].ret = [status |-> "raised"]]
                   /\ chord' = [chord EXCEPT ![c] = "callback_failure"]
              ELSE /\ batch' = [batch EXCEPT ![c].ran = TRUE, ![c].sink = sink,
                                             ![c].ret =
                                                 [status |-> "saved",
                                                  batch_id |-> saved.inserted_id,
                                                  summary |-> batch[c].aggregated[1].summary]]
                   /\ chord' = [chord EXCEPT ![c] = "callback_success"]
    /\ UNCHANGED <<cfg_symbols, cfg_strategies, mgr_initialized, mgr_symbols,
                   mgr_strategy_class_paths, cycles, tasks, fn_vars, cache_vars,
                   singleton, mongo, pool, monitor>>

Next ==
    \/ \E p \in Procs : trigger_batch_execution(p, MaxTotalTasks)
    \/ \E c \in 1..MaxCycles, i \in 1..MaxTotalTasks : execute_strategy_task(c, i)
    \/ \E c \in 1..MaxCycles, q \in Procs : process_batch_results(c, q)
    \/ \E c \in 1..MaxCycles : process_batch_results_save(c)

Spec == Init /\ [][Next]_vars

(***************************************************************************)
(* task_acks_late=True ("in case of worker crash, requeue"): the message   *)
(* of a task is acknowledged only after the task has run, so that when the *)
(* worker is lost while it runs process_batch_results, the broker delivers *)
(* the message of the callback again.  The action is the loss of the       *)
(* worker on which the batch of cycle c is running, after                  *)
(* publish_batch_complete has returned, or after save_batch_results has    *)
(* and before the acknowledgement: the Sink calls made so far stay made,   *)
(* the process and its StrategyManager are gone, and the callback is still *)
(* to be run.                                                              *)
(***************************************************************************)
IsPublish(call) == call.op = "publish_batch_complete"

process_batch_results_lost(c) ==
    /\ c \in 1..Len(cycles)
    /\ chord[c] = "callback_queued"
    /\ batch[c].ret.status = "running"
    /\ Len(SelectSeq(batch[c].sink, IsPublish)) <= MaxRedeliveries
    /\ \E lost_after \in {"publish_batch_complete", "save_batch_results"} :
          LET q == batch[c].ret.proc
              saved == save_batch_results(TRUE, c)
          IN  /\ batch' = [batch EXCEPT ![c] =
                     [NotRun EXCEPT !.sink =
                         IF lost_after = "publish_batch_complete"
                         THEN batch[c].sink
                         ELSE Append(batch[c].sink, SaveCall(c, saved))]]
              /\ mgr_initialized' = [mgr_initialized EXCEPT ![q] = FALSE]
              /\ mgr_symbols' = [mgr_symbols EXCEPT ![q] = <<>>]
              /\ mgr_strategy_class_paths' = [mgr_strategy_class_paths EXCEPT ![q] = <<>>]
    /\ UNCHANGED <<cfg_symbols, cfg_strategies, cycles, tasks, chord, fn_vars, cache_vars,
                   singleton, mongo, pool, monitor>>

NextLoss ==
    \/ Next
    \/ \E c \in 1..MaxCycles : process_batch_results_lost(c)

SpecLoss == Init /\ [][NextLoss]_vars

(***************************************************************************)
(* The beat schedule "run-batch-periodically" sends run_all_batch_task     *)
(* (trigger_batch_execution) every schedule_seconds, whatever the state of *)
(* the cycles before: worker p runs the next trigger while the tasks or    *)
(* the callback of an earlier cycle are still running.  The cycles may     *)
(* have up to MaxManagerTasks tasks in all, which is enough for a worker   *)
(* process to run the trigger twice; of the tasks of a cycle the first     *)
(* MaxTotalTasks are followed, the others are still PENDING.               *)
(***************************************************************************)
run_all_batch_task(p) == trigger_batch_execution(p, MaxManagerTasks)

NextManager ==
    \/ \E p \in Procs : run_all_batch_task(p)
    \/ \E c \in 1..MaxCycles, i \in 1..MaxTotalTasks : execute_strategy_task(c, i)
    \/ \E c \in 1..MaxCycles, q \in Procs : process_batch_results(c, q)
    \/ \E c \in 1..MaxCycles : process_batch_results_save(c)

SpecManager == Init /\ [][NextManager]_vars

(***************************************************************************)
(* Direct calls of the functions of StrategyManager.  The orchestration is *)
(* idle; a call is drawn with its arguments, and the action of a function  *)
(* applies it and records what it returns.                                 *)
(***************************************************************************)
Idle ==
    /\ cfg_symbols = <<>>
    /\ cfg_strategies = <<>>
    /\ mgr_initialized = [p \in Procs |-> FALSE]
    /\ mgr_symbols = [p \in Procs |-> <<>>]
    /\ mgr_strategy_class_paths = [p \in Procs |-> <<>>]
    /\ cycles = <<>>
    /\ tasks = <<>>
    /\ chord = <<>>
    /\ batch = <<>>
    /\ singleton = NoManager
    /\ mongo = NoConnection
    /\ pool = NoPool
    /\ monitor = TaskMonitor_init

IdleVars == <<cfg_symbols, cfg_strategies, mgr_initialized, mgr_symbols,
              mgr_strategy_class_paths, cycles, tasks, chord, batch, singleton, mongo, pool, monitor>>

\* the lists a StrategyManager may hold: add_symbols and add_strategies
\* extend them by any list, so that an entry may come twice
ManagerSymbols == SeqsUpTo({"BTC-USD", "ETH-USD"}, MaxSymbols)
ManagerStrategies == SeqsUpTo({"S1", "S2"}, MaxStrategies)

InitBuild ==
    /\ Idle
    /\ fn_call \in [fn : {"create_task_signatures_with_numbering"},
                    symbols : ManagerSymbols,
                    strategy_class_paths : ManagerStrategies]
    /\ fn_ret = <<>>
    /\ CacheIdle

call_create_task_signatures_with_numbering ==
    /\ fn_call.fn = "create_task_signatures_with_numbering"
    /\ fn_ret = <<>>
    /\ fn_ret' = <<create_task_signatures_with_numbering(fn_call.symbols,
                                                         fn_call.strategy_class_paths)>>
    /\ UNCHANGED <<IdleVars, fn_call, cache_vars>>

SpecBuild == InitBuild /\ [][call_create_task_signatures_with_numbering]_vars

(***************************************************************************)
(* Direct calls of StrategyManager.aggregate_results on the manager of     *)
(* worker process 1, which is new or has run one trigger.  The list of a   *)
(* call holds result dictionaries, dictionaries with an empty symbol or    *)
(* without one, and None; the function is called on the list, and once     *)
(* more on the list in the arrival order that fn_call.order gives.         *)
(***************************************************************************)
AggregateInputs ==
    {[kind |-> "none"], [kind |-> "nokey"],
     ResultDict("S1", "", "HOLD", 0),
     ResultDict("S1", "BTC-USD", "BUY", 1),
     ResultDict("S2", "BTC-USD", "HOLD", 1),
     ResultDict("S1", "ETH-USD", "SELL", 1)}

\* the orders of n arrivals
Orders(n) == {f \in [1..n -> 1..n] : \A i, j \in 1..n : f[i] = f[j] => i = j}

Reordered(s, order) == [i \in 1..Len(s) |-> s[order[i]]]

InitAggregate ==
    /\ cfg_symbols = <<"BTC-USD", "ETH-USD">>
    /\ cfg_strategies = <<"S1", "S2">>
    /\ \E used \in BOOLEAN :
          /\ mgr_initialized = [p \in Procs |-> p = 1 /\ used]
          /\ mgr_symbols = [p \in Procs |-> IF p = 1 /\ used THEN cfg_symbols ELSE <<>>]
          /\ mgr_strategy_class_paths =
                 [p \in Procs |-> IF p = 1 /\ used THEN cfg_strategies ELSE <<>>]
    /\ cycles = <<>>
    /\ tasks = <<>>
    /\ chord = <<>>
    /\ batch = <<>>
    /\ singleton = NoManager
    /\ mongo = NoConnection
    /\ pool = NoPool
    /\ monitor = TaskMonitor_init
    /\ \E flat_results \in SeqsUpTo(AggregateInputs, MaxResults) :
          fn_call \in [fn : {"aggregate_results"}, flat_results : {flat_results},
                       order : Orders(Len(flat_results))]
    /\ fn_ret = <<>>
    /\ CacheIdle

\* the first call is given the list fn_call.flat_results; the second is
\* given the same list when the order is the same, and otherwise a new list
\* of its items in the other order.  What the call leaves of the objects it
\* worked on is what the next call finds
call_aggregate_results ==
    /\ fn_call.fn = "aggregate_results"
    /\ Len(fn_ret) < 2
    /\ LET same_list == fn_ret = <<>> \/ fn_call.order = [i \in DOMAIN fn_call.order |-> i]
           flat_results == IF same_list THEN fn_call.flat_results
                           ELSE Reordered(fn_call.flat_results, fn_call.order)
           left == aggregate_results_leaves(
                       [flat_results |-> flat_results, symbols |-> mgr_symbols[1],
                        strategy_class_paths |-> mgr_strategy_class_paths[1]])
       IN  /\ fn_ret' = Append(fn_ret,
                               aggregate_results(flat_results, mgr_symbols[1],
                                                 mgr_strategy_class_paths[1]))
           /\ fn_call' = IF same_list
                         THEN [fn_call EXCEPT !.flat_results = left.flat_results]
                         ELSE fn_call
           /\ mgr_symbols' = [mgr_symbols EXCEPT ![1] = left.symbols]
           /\ mgr_strategy_class_paths' =
                  [mgr_strategy_class_paths EXCEPT ![1] = left.strategy_class_paths]
    /\ mgr_initialized' = [mgr_initialized EXCEPT ![1] = TRUE]
    /\ UNCHANGED <<cfg_symbols, cfg_strategies, cycles, tasks, chord, batch, cache_vars,
                   singleton, mongo, pool, monitor>>

SpecAggregate == InitAggregate /\ [][call_aggregate_results]_vars


(***************************************************************************)
(* Calls of fetch_historical_data by concurrent workers, step by step.     *)
(***************************************************************************)
\* Redis.from_url may have failed when the process of a worker imported
\* data_provider: the worker has no client then.  Of two workers without a
\* client neither touches the cache; at least the first worker has one.
InitCache ==
    /\ Idle
    /\ fn_call = NoCall
    /\ fn_ret = <<>>
    /\ redis_db = [k \in CacheKeys |-> NoEntry]
    /\ now = 0
    /\ \E client \in BOOLEAN :
          calls = [w \in Workers |-> [NoCallYet EXCEPT !.client = (w = 1) \/ client]]
    /\ writes = [k \in CacheKeys |-> NoEntry]

KeyOf(call) == get_cache_key(call.request.symbol, call.request.period, call.request.interval)

\* what a call keeps from step to step
CallOf(w) == [n |-> calls[w].n, client |-> calls[w].client, request |-> calls[w].request]

\* number of calls of fetch_historical_data made so far, by all workers
CallsMade == SumSeq([w \in Workers |-> calls[w].n])

\* worker w calls fetch_historical_data(symbol, period, interval)
fetch_historical_data(w) ==
    /\ calls[w].pc \in {"idle", "done"}
    /\ CallsMade < MaxFetchCalls
    /\ \E request \in CacheRequests :
          calls' = [calls EXCEPT ![w] = [pc |-> "get", n |-> calls[w].n + 1,
                                         client |-> calls[w].client,
                                         request |-> request]]
    /\ UNCHANGED <<IdleVars, fn_vars, redis_db, now, writes>>

\* worker w looks its key up: a hit is returned; on a miss end_time is read
\* from the clock and the time range is computed, which raises a TypeError
\* when the period is a string
cache_lookup(w) ==
    /\ calls[w].pc = "get"
    /\ \E redis_ok \in BOOLEAN :
          LET cached_data == get_from_cache(calls[w].client, redis_db, KeyOf(calls[w]),
                                            now, redis_ok)
              call == CallOf(w)
          IN  calls' = [calls EXCEPT ![w] =
                  IF cached_data # <<>>
                  THEN call @@ [pc |-> "done", outcome |-> "hit", ret |-> cached_data[1],
                                at |-> now, requests |-> 0]
                  ELSE IF calls[w].request.period \notin IntPeriods
                  THEN call @@ [pc |-> "done", outcome |-> "raised", requests |-> 0]
                  ELSE call @@ [pc |-> "request", end_time |-> now]]
    /\ UNCHANGED <<IdleVars, fn_vars, redis_db, now, writes>>

\* worker w sends its requests to the API and builds the DataFrame; requests
\* counts the calls of requests.get until the loop is left.  The call goes
\* on to the indicators and to the store whenever df is not None
upstream_fetch(w) ==
    /\ calls[w].pc = "request"
    /\ \E responses \in [1..3 -> ApiResponses] :
          LET fetched == ForAttempt(responses, 0)
              call == CallOf(w)
          IN  calls' = [calls EXCEPT ![w] =
                  IF fetched.ok
                  THEN call @@ [pc |-> "save", requests |-> fetched.attempts,
                                seen |-> fetched.seen, waits |-> fetched.waits,
                                df |-> IF fetched.indexed
                                       THEN Dataset(calls[w].request, calls[w].end_time)
                                       ELSE RawDataset(calls[w].request,
                                                       calls[w].end_time)]
                  ELSE call @@ [pc |-> "done", outcome |-> "raised",
                                requests |-> fetched.attempts,
                                seen |-> fetched.seen, waits |-> fetched.waits]]
    /\ UNCHANGED <<IdleVars, fn_vars, redis_db, now, writes>>

\* worker w stores its DataFrame and returns it
cache_store(w) ==
    /\ calls[w].pc = "save"
    /\ \E redis_ok \in BOOLEAN :
          /\ redis_db' = save_to_cache(calls[w].client, redis_db, KeyOf(calls[w]),
                                       calls[w].df, now, redis_ok)
          /\ writes' = IF calls[w].client /\ redis_ok
                       THEN [writes EXCEPT ![KeyOf(calls[w])] =
                                [present |-> TRUE, value |-> calls[w].df, at |-> now]]
                       ELSE writes
    /\ calls' = [calls EXCEPT ![w] =
                    CallOf(w) @@ [pc |-> "done", outcome |-> "fetched", ret |-> @.df,
                                  at |-> now]]
    /\ UNCHANGED <<IdleVars, fn_vars, now>>

\* the process of worker w, between two calls of fetch_historical_data,
\* calls clear_cache and asks Redis for the keys "stock_data:*"; it goes on
\* to delete the keys it was given when there are any.  Without a client,
\* after an error of Redis, which is logged, and without keys the call
\* returns and has changed nothing
clear_cache(w) ==
    /\ calls[w].pc \in {"idle", "done"}
    /\ \E redis_ok \in BOOLEAN :
          LET keys == redis_keys(redis_db, now)
          IN  calls' = [calls EXCEPT ![w] =
                  IF ~calls[w].client \/ ~redis_ok \/ keys = {}
                  THEN @
                  ELSE [pc |-> "delete", n |-> @.n, client |-> @.client,
                        keys |-> keys, listed_at |-> now]]
    /\ UNCHANGED <<IdleVars, fn_vars, redis_db, now, writes>>

\* worker w sends the DELETE of the keys that KEYS gave it, and clear_cache
\* returns; an error of Redis is logged and leaves the entries as they are
cache_delete(w) ==
    /\ calls[w].pc = "delete"
    /\ \E redis_ok \in BOOLEAN :
          /\ redis_db' = IF redis_ok THEN redis_delete(redis_db, calls[w].keys)
                         ELSE redis_db
          /\ writes' = IF redis_ok THEN redis_delete(writes, calls[w].keys) ELSE writes
    /\ calls' = [calls EXCEPT ![w] = [pc |-> "idle", n |-> @.n, client |-> @.client]]
    /\ UNCHANGED <<IdleVars, fn_vars, now>>

\* time passes
Tick ==
    /\ now < Horizon
    /\ now' = now + CACHE_DURATION \div 2
    /\ UNCHANGED <<IdleVars, fn_vars, redis_db, calls, writes>>

NextCache ==
    \/ \E w \in Workers : fetch_historical_data(w)
    \/ \E w \in Workers : cache_lookup(w)
    \/ \E w \in Workers : upstream_fetch(w)
    \/ \E w \in Workers : cache_store(w)
    \/ \E w \in Workers : clear_cache(w)
    \/ \E w \in Workers : cache_delete(w)
    \/ Tick

SpecCache == InitCache /\ [][NextCache]_vars

(***************************************************************************)
(* Direct calls of _save_to_cache: two DataFrames, one after the other,    *)
(* for the requests of the strategies that pass a number of days.          *)
(***************************************************************************)
StoreRequests ==
    {[symbol |-> sym, period |-> r[1], interval |-> r[2]] :
        sym \in {"BTC-USD", "ETH-USD"},
        r \in {<<"180", "1d">>, <<"5", "15m">>, <<"30", "15m">>}}

StoreKeys == {get_cache_key(r.symbol, r.period, r.interval) : r \in StoreRequests}

InitStore ==
    /\ Idle
    /\ fn_call \in [fn : {"_save_to_cache"}, requests : [1..2 -> StoreRequests]]
    /\ fn_ret = <<>>
    /\ redis_db = [k \in StoreKeys |-> NoEntry]
    /\ now \in {0, CACHE_DURATION}
    /\ calls = [w \in Workers |-> NoCallYet]
    /\ writes = [k \in StoreKeys |-> NoEntry]

\* _save_to_cache(cache_key, df) for the next request of fn_call; fn_ret
\* keeps the keys of the calls made
call_save_to_cache ==
    /\ fn_call.fn = "_save_to_cache"
    /\ Len(fn_ret) < 2
    /\ LET request == fn_call.requests[Len(fn_ret) + 1]
           cache_key == get_cache_key(request.symbol, request.period, request.interval)
       IN  /\ \E redis_ok \in BOOLEAN :
                  redis_db' = save_to_cache(TRUE, redis_db, cache_key,
                                            Dataset(request, now), now, redis_ok)
           /\ fn_ret' = Append(fn_ret, cache_key)
    /\ UNCHANGED <<IdleVars, fn_call, now, calls, writes>>

SpecStore == InitStore /\ [][call_save_to_cache]_vars

(***************************************************************************)
(* The callers of fetch_historical_data: the strategies.  Some of them     *)
(* write columns to the DataFrame that the call returned to them, others   *)
(* work on a new DataFrame made from it.  The DataFrame is local to the    *)
(* call of execute: nothing else sees it between two of its writes, and    *)
(* the writes of one call are one step.                                    *)
(***************************************************************************)
Strategies ==
    {"BBStrategy", "MotherCandleStrategy", "PDHLStrategy", "EMAStrategy",
     "RSIStrategy", "MACDStrategy", "VolumeBreakoutStrategy"}

\* the strategies whose execute makes the call fetch_historical_data(symbol,
\* period, interval) of the request and keeps what it returns as df
StrategiesCalling(request) ==
    {strategy \in Strategies :
        <<request.period, request.interval>> =
            CASE strategy \in {"BBStrategy", "MotherCandleStrategy"} -> <<"30", "15m">>
              [] strategy = "PDHLStrategy" -> <<"5", "15m">>
              [] OTHER -> <<"5d", "5m">>}

\* the columns that execute assigns, in this order, to the DataFrame that
\* fetch_historical_data returned, when the data are long enough for it
\* to come to these assignments.  BBStrategy has none: df = df.join(bb)
\* binds df to a new DataFrame before its first assignment.  PDHLStrategy
\* assigns the columns of stats_df and then binds df to the DataFrame that
\* dropna returns, which gets 'PDHLAction'.
ColumnsWritten(strategy) ==
    CASE strategy = "BBStrategy" -> <<>>
      [] strategy = "MotherCandleStrategy" -> <<"PriceToEMA", "Action">>
      [] strategy = "PDHLStrategy" ->
            <<"PD_H1", "PD_L1", "PD_H2", "PD_L2", "PD_H3", "PD_L3",
              "PW_H1", "PW_L1", "PW_H2", "PW_L2", "PW_H3", "PW_L3",
              "PM_H1", "PM_L1", "PM_H2", "PM_L2", "PM_H3", "PM_L3">>
      [] strategy \in {"EMAStrategy", "RSIStrategy"} -> <<"Action">>
      [] strategy = "MACDStrategy" ->
            <<"MACD", "MACD_Signal", "MACD_Histogram", "Action">>
      [] strategy = "VolumeBreakoutStrategy" ->
            <<"Volume_SMA_20", "Volume_Ratio", "Price_Range", "Avg_Range",
              "Range_Ratio", "Action">>

\* a caller whose DataFrame is the very object that the cache holds
mutate_dataframe_shared(w) ==
    /\ calls[w].pc = "done"
    /\ calls[w].outcome \in {"hit", "fetched"}
    /\ calls[w].ret.added = <<>>
    /\ \E strategy \in StrategiesCalling(calls[w].request) :
          /\ ColumnsWritten(strategy) # <<>>
          /\ calls' = [calls EXCEPT ![w] =
                          [@ EXCEPT !.ret.added = ColumnsWritten(strategy)]
                              @@ [mutated_at |-> now]]
          /\ redis_db' =
                [k \in DOMAIN redis_db |->
                    IF redis_db[k].present /\ pickle_loads(redis_db[k].value) = calls[w].ret
                    THEN [redis_db[k] EXCEPT
                             !.value = pickle_dumps([calls[w].ret EXCEPT
                                                        !.added = ColumnsWritten(strategy)])]
                    ELSE redis_db[k]]
    /\ UNCHANGED <<IdleVars, fn_vars, now, writes>>

\* the strategy that worker w runs assigns its columns to the DataFrame
\* that its call returned, the object that pickle.loads or pd.DataFrame made
\* for this call.  A strategy that returns or raises before its first
\* assignment, for want of data, and one that assigns to a new DataFrame,
\* leave the object as it is: there is no step.
mutate_dataframe(w) ==
    /\ calls[w].pc = "done"
    /\ calls[w].outcome \in {"hit", "fetched"}
    /\ calls[w].ret.added = <<>>
    /\ \E strategy \in StrategiesCalling(calls[w].request) :
          /\ ColumnsWritten(strategy) # <<>>
          /\ calls' = [calls EXCEPT ![w] =
                          [@ EXCEPT !.ret.added = ColumnsWritten(strategy)]
                              @@ [mutated_at |-> now]]
    /\ UNCHANGED <<IdleVars, fn_vars, redis_db, now, writes>>

NextFrame ==
    \/ NextCache
    \/ \E w \in Workers : mutate_dataframe(w)

SpecFrame == InitCache /\ [][NextFrame]_vars

(***************************************************************************)
(* settings.get_strategies.  The text of settings.strategies is a sequence *)
(* of characters, a path a sequence of characters too; discovered is what  *)
(* _discover_strategy_class_paths returns, a sorted list of the paths of   *)
(* the classes found, each once.                                           *)
(***************************************************************************)
Characters == {"a", "b", "*", ",", " "}

\* s.split(sep)
RECURSIVE SplitFrom(_, _, _, _)
SplitFrom(text, sep, current, parts) ==
    IF text = <<>> THEN Append(parts, current)
    ELSE IF Head(text) = sep
    THEN SplitFrom(Tail(text), sep, <<>>, Append(parts, current))
    ELSE SplitFrom(Tail(text), sep, Append(current, Head(text)), parts)

split(text, sep) == SplitFrom(text, sep, <<>>, <<>>)

\* s.strip()
RECURSIVE lstrip(_)
lstrip(text) ==
    IF text # <<>> /\ Head(text) = " " THEN lstrip(Tail(text)) ELSE text

RECURSIVE rstrip(_)
rstrip(text) ==
    IF text # <<>> /\ text[Len(text)] = " "
    THEN rstrip(SubSeq(text, 1, Len(text) - 1))
    ELSE text

strip(text) == rstrip(lstrip(text))

\* [s.strip() for s in settings.strategies.split(",") if s.strip()]
Declared(text) ==
    LET parts == split(text, ",")
        stripped == [i \in 1..Len(parts) |-> strip(parts[i])]
        NotEmpty(part) == part # <<>>
    IN  SelectSeq(stripped, NotEmpty)

\* the loop "for entry in declared"
NotStar(entry) == entry # <<"*">>

\* a removal of duplicates that keeps the last occurrence of a path
RECURSIVE Dedupe_keep_last(_, _)
Dedupe_keep_last(strategies, deduped) ==
    IF strategies = <<>> THEN deduped
    ELSE LET path == Head(strategies)
             IsOther(p) == p # path
         IN  Dedupe_keep_last(Tail(strategies), Append(SelectSeq(deduped, IsOther), path))

\* the loop "for path in strategies": a path already seen is skipped
RECURSIVE Dedupe(_, _)
Dedupe(strategies, deduped) ==
    IF strategies = <<>> THEN deduped
    ELSE LET path == Head(strategies)
         IN  IF path \in Range(deduped)
             THEN Dedupe(Tail(strategies), deduped)
             ELSE Dedupe(Tail(strategies), Append(deduped, path))

get_strategies(text, discovered) ==
    LET declared == Declared(text)
        include_discovered == \E i \in 1..Len(declared) : declared[i] = <<"*">>
        explicit == SelectSeq(declared, NotStar)
        strategies == IF include_discovered THEN explicit \o discovered ELSE explicit
    IN  Dedupe(strategies, <<>>)

Texts == UNION {[1..n -> Characters] : n \in 0..MaxTextLen}

DiscoveredLists == {<<>>, <<<<"a">>>>, <<<<"b">>>>, <<<<"a">>, <<"b">>>>}

InitStrategies ==
    /\ Idle
    /\ fn_call \in [fn : {"get_strategies"}, strategies : Texts,
                    discovered : DiscoveredLists]
    /\ fn_ret = <<>>
    /\ CacheIdle

call_get_strategies ==
    /\ fn_call.fn = "get_strategies"
    /\ fn_ret = <<>>
    /\ fn_ret' = <<get_strategies(fn_call.strategies, fn_call.discovered)>>
    /\ UNCHANGED <<IdleVars, fn_call, cache_vars>>

SpecStrategies == InitStrategies /\ [][call_get_strategies]_vars

(***************************************************************************)
(* Threads of one process that call get_database (or get_collection, which *)
(* calls it), step by step: the test of _db, "with threading.Lock()",      *)
(* which makes a lock of its own for this call and takes it, the second    *)
(* test, the statements of _connect one by one (the new MongoClient, the   *)
(* ping and its answer, the assignment of _db, the indexes), and the       *)
(* return of self._db.                                                     *)
(***************************************************************************)
InitMongo ==
    /\ Idle
    /\ fn_call = NoCall
    /\ fn_ret = <<>>
    /\ CacheIdle

MongoFrame == UNCHANGED <<cfg_symbols, cfg_strategies, mgr_initialized, mgr_symbols,
                          mgr_strategy_class_paths, cycles, tasks, chord, batch,
                          fn_vars, cache_vars, singleton, pool, monitor>>

\* thread t moves to pc
Goto(t, pc) == [mongo EXCEPT !.threads[t].pc = pc]

get_database(t) ==
    /\ mongo.threads[t].pc \in {"idle", "done"}
    /\ mongo.threads[t].n < MaxGetCalls
    /\ mongo' = [mongo EXCEPT !.threads[t] = [pc |-> "check", n |-> @.n + 1]]
    /\ MongoFrame

\* if self._db is None
first_check(t) ==
    /\ mongo.threads[t].pc = "check"
    /\ mongo' = Goto(t, IF mongo.db = 0 THEN "lock" ELSE "return")
    /\ MongoFrame

\* with threading.Lock(): the lock is a new object, which nobody else holds
with_lock(t) ==
    /\ mongo.threads[t].pc = "lock"
    /\ mongo' = Goto(t, "locked")
    /\ MongoFrame

\* if self._db is None, under the lock of the call
second_check(t) ==
    /\ mongo.threads[t].pc = "locked"
    /\ mongo' = Goto(t, IF mongo.db = 0 THEN "connect" ELSE "return")
    /\ MongoFrame

\* _connect, self._client = MongoClient(...): the client is built without
\* any exchange with the server, or the constructor raises and nothing is
\* assigned
new_client(t) ==
    /\ mongo.threads[t].pc = "connect"
    /\ \E ok \in BOOLEAN :
          mongo' = IF ok
                   THEN [mongo EXCEPT !.clients = @ + 1, !.client = mongo.clients + 1,
                                      !.threads[t].pc = "ping"]
                   ELSE Raised(mongo, t)
    /\ MongoFrame

\* self._client.admin.command('ping'): the command goes to the client that
\* _client is now, and the thread waits for the answer
ping(t) ==
    /\ mongo.threads[t].pc = "ping"
    /\ mongo' = [mongo EXCEPT !.threads[t] =
                     [pc |-> "pinging", n |-> @.n, client |-> mongo.client]]
    /\ MongoFrame

\* the answer to the ping, or ConnectionFailure, which _connect raises again
ping_reply(t) ==
    /\ mongo.threads[t].pc = "pinging"
    /\ \E ok \in BOOLEAN :
          mongo' = IF ok
                   THEN [mongo EXCEPT !.threads[t] = [pc |-> "db", n |-> @.n]]
                   ELSE Raised(mongo, t)
    /\ MongoFrame

\* self._db = self._client[db_name]: a new Database object of the client
\* that _client is now
set_db(t) ==
    /\ mongo.threads[t].pc = "db"
    /\ mongo' = [mongo EXCEPT !.connects = @ + 1, !.db = mongo.connects + 1,
                              !.handles = Append(@, mongo.client),
                              !.threads[t].pc = "indexes"]
    /\ MongoFrame

\* _setup_indexes: create_index on the collection of the Database that _db
\* is now; an error is logged and nothing is raised
setup_indexes(t) ==
    /\ mongo.threads[t].pc = "indexes"
    /\ \E ok \in BOOLEAN :
          mongo' = [mongo EXCEPT !.indexed = IF ok THEN @ \cup {mongo.handles[mongo.db]}
                                             ELSE @,
                                 !.threads[t].pc = "return"]
    /\ MongoFrame

\* return self._db
return_db(t) ==
    /\ mongo.threads[t].pc = "return"
    /\ mongo' = [mongo EXCEPT !.threads[t] =
                     [pc |-> "done", n |-> @.n, outcome |-> "returned", ret |-> mongo.db]]
    /\ MongoFrame

NextMongo ==
    \/ \E t \in Threads : get_database(t)
    \/ \E t \in Threads : first_check(t)
    \/ \E t \in Threads : with_lock(t)
    \/ \E t \in Threads : second_check(t)
    \/ \E t \in Threads : new_client(t)
    \/ \E t \in Threads : ping(t)
    \/ \E t \in Threads : ping_reply(t)
    \/ \E t \in Threads : set_db(t)
    \/ \E t \in Threads : setup_indexes(t)
    \/ \E t \in Threads : return_db(t)

SpecMongo == InitMongo /\ [][NextMongo]_vars

(***************************************************************************)
(* One core.StrategyManager in the hands of its owner, who calls its       *)
(* methods one after the other: strategies are registered and removed, and *)
(* a call of execute_all_strategies_parallel submits a future for each     *)
(* registered strategy, the worker threads of the executor run them, and   *)
(* the caller collects the futures as they complete.  The class has no     *)
(* lock, and no strategy holds a reference to its manager.                 *)
(***************************************************************************)
InitPool ==
    /\ Idle
    /\ fn_call = NoCall
    /\ fn_ret = <<>>
    /\ CacheIdle

PoolFrame == UNCHANGED <<cfg_symbols, cfg_strategies, mgr_initialized, mgr_symbols,
                         mgr_strategy_class_paths, cycles, tasks, chord, batch,
                         fn_vars, cache_vars, singleton, mongo, monitor>>

\* StrategyManager(max_workers)
core_StrategyManager(max_workers) ==
    /\ pool.pc = "none"
    /\ pool' = [pool EXCEPT !.pc = "idle", !.max_workers = max_workers]
    /\ PoolFrame

\* add_strategy(strategy_class): the constructor returns an instance, which
\* is appended when it is a BaseStrategy, or it raises; the exception and
\* the TypeError are raised again and nothing is appended
add_strategy(strategy_class) ==
    /\ Quiet(pool)
    /\ Len(pool.strategies) < MaxRegistered
    /\ \E constructed \in BOOLEAN :
          pool' = IF constructed /\ strategy_class # NotAStrategy
                  THEN [AtCall(pool) EXCEPT !.strategies = Append(@, strategy_class)]
                  ELSE [AtCall(pool) EXCEPT !.raised = TRUE]
    /\ PoolFrame

\* add_strategy_instance(strategy): TypeError for what is not a BaseStrategy
add_strategy_instance(strategy) ==
    /\ Quiet(pool)
    /\ Len(pool.strategies) < MaxRegistered
    /\ pool' = IF strategy # NotAStrategy
               THEN [AtCall(pool) EXCEPT !.strategies = Append(@, strategy)]
               ELSE [AtCall(pool) EXCEPT !.raised = TRUE]
    /\ PoolFrame

\* clear_strategies()
clear_strategies ==
    /\ Quiet(pool)
    /\ pool' = [AtCall(pool) EXCEPT !.strategies = <<>>]
    /\ PoolFrame

\* remove_strategy(strategy_name): the first strategy of this name is
\* removed and True returned, or False when there is none
remove_strategy(strategy_name) ==
    /\ Quiet(pool)
    /\ pool' = IF \E i \in DOMAIN pool.strategies : pool.strategies[i] = strategy_name
               THEN [AtCall(pool) EXCEPT
                        !.strategies = PopFirst(@, strategy_name), !.removed = TRUE]
               ELSE AtCall(pool)
    /\ PoolFrame

\* the call, up to the submission of the futures
execute_all_strategies_parallel ==
    /\ Quiet(pool)
    /\ pool' = IF pool.strategies = <<>>
               THEN [AtCall(pool) EXCEPT !.pc = "returned"]
               ELSE [AtCall(pool) EXCEPT
                        !.pc = "collecting",
                        !.futures = [i \in DOMAIN pool.strategies |-> "pending"]]
    /\ PoolFrame

\* a free worker thread takes the oldest future of the queue
worker_run(i) ==
    /\ pool.pc = "collecting"
    /\ i \in Pending(pool)
    /\ \A j \in Pending(pool) : i <= j
    /\ Cardinality(Running(pool)) < pool.max_workers
    /\ pool' = [pool EXCEPT !.futures[i] = "running"]
    /\ PoolFrame

\* strategy.execute() returns a StrategyResult or raises an Exception
strategy_execute(i) ==
    /\ pool.pc \in {"collecting", "gathering"}
    /\ i \in Running(pool)
    /\ \E outcome \in Done : pool' = [pool EXCEPT !.futures[i] = outcome]
    /\ PoolFrame

\* as_completed yields a finished future, and the loop body handles it
as_completed(i) ==
    /\ pool.pc = "collecting"
    /\ i \in DOMAIN pool.futures
    /\ pool.futures[i] \in Done
    /\ i \notin pool.yielded
    /\ pool' = collect(pool, i)
    /\ PoolFrame

\* the loop is over, the executor is shut down (which waits for every future),
\* and results is returned
return_results ==
    /\ pool.pc = "collecting"
    /\ pool.yielded = DOMAIN pool.futures
    /\ \A i \in DOMAIN pool.futures : pool.futures[i] \in Done
    /\ pool' = [pool EXCEPT !.pc = "returned", !.ret = pool.results]
    /\ PoolFrame

\* execute_all_strategies_async, up to "await asyncio.gather": a task for
\* each strategy, which runs strategy.execute in the default executor of the
\* loop; that executor has more threads than there are strategies here
execute_all_strategies_async ==
    /\ Quiet(pool)
    /\ pool' = IF pool.strategies = <<>>
               THEN [AtCall(pool) EXCEPT !.pc = "gathered"]
               ELSE [AtCall(pool) EXCEPT
                        !.pc = "gathering",
                        !.futures = [i \in DOMAIN pool.strategies |-> "running"]]
    /\ PoolFrame

\* gather returns when every task is over, with its result or its
\* exception; the results are returned in the order of the strategies
gather ==
    /\ pool.pc = "gathering"
    /\ \A i \in DOMAIN pool.futures : pool.futures[i] \in Done
    /\ pool' = [pool EXCEPT !.pc = "gathered", !.yielded = DOMAIN pool.futures,
                            !.results = Gathered(pool), !.ret = Gathered(pool)]
    /\ PoolFrame

NextPool ==
    \/ \E max_workers \in WorkerCounts : core_StrategyManager(max_workers)
    \/ \E strategy_class \in StrategyNames \cup {NotAStrategy} : add_strategy(strategy_class)
    \/ \E strategy \in StrategyNames \cup {NotAStrategy} : add_strategy_instance(strategy)
    \/ clear_strategies
    \/ \E strategy_name \in StrategyNames : remove_strategy(strategy_name)
    \/ execute_all_strategies_parallel
    \/ \E i \in 1..MaxRegistered : worker_run(i)
    \/ \E i \in 1..MaxRegistered : strategy_execute(i)
    \/ \E i \in 1..MaxRegistered : as_completed(i)
    \/ return_results
    \/ execute_all_strategies_async
    \/ gather

SpecPool == InitPool /\ [][NextPool]_vars

(***************************************************************************)
(* One TaskMonitor that is notified of events and asked for its summary.   *)
(* The summary is kept until the next notification: its batch_statistics   *)
(* are the monitor's own objects.                                          *)
(***************************************************************************)
InitMonitor ==
    /\ Idle
    /\ fn_call = NoCall
    /\ fn_ret = <<>>
    /\ CacheIdle

MonitorFrame == UNCHANGED <<cfg_symbols, cfg_strategies, mgr_initialized, mgr_symbols,
                            mgr_strategy_class_paths, cycles, tasks, chord, batch,
                            fn_vars, cache_vars, singleton, mongo, pool>>

call_notify(event) ==
    /\ Len(monitor.created_tasks) + Len(monitor.completed_tasks) < MaxEvents
    /\ monitor' = [notify(monitor, event) EXCEPT !.summary = <<>>]
    /\ MonitorFrame

call_get_summary ==
    /\ monitor.summary = <<>>
    /\ monitor' = [monitor EXCEPT !.summary = <<get_summary(monitor)>>]
    /\ MonitorFrame

NextMonitor ==
    \/ \E event \in TaskEvents : call_notify(event)
    \/ call_get_summary

SpecMonitor == InitMonitor /\ [][NextMonitor]_vars

(***************************************************************************)
(* The countdown of the retries of execute_strategy_task.  The decorator   *)
(* sets retry_backoff=True and leaves retry_backoff_max (600) and          *)
(* retry_jitter (True) at the defaults of Celery: the retry that follows   *)
(* an execution with request.retries = n is scheduled after                *)
(* get_exponential_backoff_interval(1, n, 600, True) seconds, which is     *)
(* random.randrange(min(600, 2 ** n) + 1).  The header tasks of a batch    *)
(* raise again and again; fn_ret keeps the countdowns of each.             *)
(***************************************************************************)
\* a backoff that grows threefold
get_exponential_backoff_interval_threefold(factor, retries, maximum, full_jitter) ==
    LET countdown == Min(maximum, factor * Pow(3, retries))
    IN  IF full_jitter THEN 0..countdown ELSE {countdown}

\* the values get_exponential_backoff_interval may return
get_exponential_backoff_interval(factor, retries, maximum, full_jitter) ==
    LET countdown == Min(maximum, factor * Pow(2, retries))
    IN  IF full_jitter THEN 0..countdown ELSE {countdown}

InitBackoff ==
    /\ Idle
    /\ fn_call = [fn |-> "autoretry", retry_backoff |-> TRUE, retry_jitter |-> TRUE]
    /\ fn_ret = [i \in 1..MaxTotalTasks |-> [task |-> NewTask, countdowns |-> <<>>]]
    /\ CacheIdle

\* an execution of header task i raises: the task is retried after a
\* countdown, or fails when its retries are used up
autoretry_run(i) ==
    /\ fn_call.fn = "autoretry"
    /\ fn_ret[i].task.state \in {"PENDING", "RETRY"}
    /\ LET t == fn_ret[i].task
           after == AfterRaise(t)
       IN  IF after.state = "RETRY"
           THEN \E countdown \in get_exponential_backoff_interval(
                                     IF fn_call.retry_backoff THEN 1 ELSE 0,
                                     t.retries, 600, fn_call.retry_jitter) :
                   fn_ret' = [fn_ret EXCEPT ![i] =
                                 [task |-> after,
                                  countdowns |-> Append(@.countdowns, countdown)]]
           ELSE fn_ret' = [fn_ret EXCEPT ![i].task = after]
    /\ UNCHANGED <<IdleVars, fn_call, cache_vars>>

NextBackoff == \E i \in 1..MaxTotalTasks : autoretry_run(i)

SpecBackoff == InitBackoff /\ [][NextBackoff]_vars

(***************************************************************************)
(* Calls on the class StrategyManager in one process: constructions,       *)
(* add_symbols and add_strategies through any of the handles obtained so   *)
(* far, and reset_instance.                                                *)
(***************************************************************************)
AddedSymbols == {<<"BTC-USD">>, <<"ETH-USD", "SOL-USD">>}
AddedStrategies == {<<"S1">>, <<"S2">>}

InitSingleton ==
    /\ Idle
    /\ fn_call = NoCall
    /\ fn_ret = <<>>
    /\ CacheIdle

SingletonFrame ==
    UNCHANGED <<cfg_symbols, cfg_strategies, mgr_initialized, mgr_symbols,
                mgr_strategy_class_paths, cycles, tasks, chord, batch, fn_vars,
                cache_vars, mongo, pool, monitor>>

call_StrategyManager ==
    /\ Len(singleton.log) < MaxCalls
    /\ singleton' = [StrategyManager(singleton) EXCEPT
                        !.log = Append(@, [op |-> "StrategyManager"])]
    /\ SingletonFrame

call_add_symbols ==
    /\ Len(singleton.log) < MaxCalls
    /\ \E h \in 1..Len(singleton.handles), symbols \in AddedSymbols :
          singleton' = [add_symbols(singleton, singleton.handles[h], symbols) EXCEPT
                           !.log = Append(@, [op |-> "add_symbols", handle |-> h,
                                              arg |-> symbols])]
    /\ SingletonFrame

call_add_strategies ==
    /\ Len(singleton.log) < MaxCalls
    /\ \E h \in 1..Len(singleton.handles), strategy_class_paths \in AddedStrategies :
          singleton' = [add_strategies(singleton, singleton.handles[h],
                                       strategy_class_paths) EXCEPT
                           !.log = Append(@, [op |-> "add_strategies", handle |-> h,
                                              arg |-> strategy_class_paths])]
    /\ SingletonFrame

call_reset_instance ==
    /\ Len(singleton.log) < MaxCalls
    /\ singleton' = [reset_instance(singleton) EXCEPT
                        !.log = Append(@, [op |-> "reset_instance"])]
    /\ SingletonFrame

NextSingleton ==
    \/ call_StrategyManager
    \/ call_add_symbols
    \/ call_add_strategies
    \/ call_reset_instance

SpecSingleton == InitSingleton /\ [][NextSingleton]_vars

(***************************************************************************)
(* Vocabulary of the properties.                                           *)
(***************************************************************************)
CycleIds == 1..Len(cycles)
TaskIds(c) == 1..Len(tasks[c])
Succeeded(c) == {i \in TaskIds(c) : tasks[c][i].state = "SUCCESS"}
Failed(c) == {i \in TaskIds(c) : tasks[c][i].state = "FAILURE"}
CallbackSent(c) == chord[c] \in {"callback_queued", "callback_success", "callback_failure"}
\* nothing more happens for cycle c
CycleOver(c) == chord[c] \in {"chord_error", "callback_success", "callback_failure"}
Summary(c) == batch[c].aggregated[1].summary
Groups(c) == batch[c].aggregated[1].results
SinkOps(c) == [k \in 1..Len(batch[c].sink) |-> batch[c].sink[k].op]
\* header task i of cycle c is executed in the step
Executed(c, i) == tasks'[c][i] # tasks[c][i]
ConfiguredTasks == Len(cfg_symbols) * Len(cfg_strategies)

(***************************************************************************)
(* C1: the callback process_batch_results of a chord is sent, and runs,    *)
(* only when every header task of the chord has ended (SUCCESS or          *)
(* FAILURE), and it is given one entry per header task.                    *)
(***************************************************************************)
C1_Barrier ==
    \A c \in CycleIds :
        /\ CallbackSent(c) => AllTerminal(tasks[c])
        /\ batch[c].ran => /\ AllTerminal(tasks[c])
                           /\ Len(batch[c].results) = Len(cycles[c].sigs)

\* one chord has been aggregated while another one still waits for a task
C1_Witness ==
    \E c \in CycleIds, d \in CycleIds :
        /\ batch[c].ran /\ Len(tasks[c]) >= 1
        /\ chord[d] = "header" /\ \E i \in TaskIds(d) : tasks[d][i].state = "RETRY"

(***************************************************************************)
(* C2: a header task that exhausts its retries does not abort the batch:   *)
(* once every task of a non-empty batch has ended, the callback is sent    *)
(* (and so the Aggregator runs), also when some task ended in FAILURE.     *)
(***************************************************************************)
C2_FailureDoesNotAbort ==
    \A c \in CycleIds :
        (Len(tasks[c]) > 0 /\ AllTerminal(tasks[c])) => CallbackSent(c)

(***************************************************************************)
(* C3 as claimed: no task is executed more than 3 times in total.          *)
(***************************************************************************)
C3_AtMostThreeAttempts ==
    [][\A c \in CycleIds : \A i \in TaskIds(c) :
          Executed(c, i) => tasks[c][i].retries + 1 <= 3]_vars

(***************************************************************************)
(* C3 amended: no task is executed more than MaxRetries + 1 = 4 times in   *)
(* total; an execution other than the first happens only from RETRY, that  *)
(* is after the previous execution raised; a task in SUCCESS or FAILURE is *)
(* never executed again.                                                   *)
(***************************************************************************)
C3_AttemptsWithinRetries ==
    [][\A c \in CycleIds : \A i \in TaskIds(c) :
          Executed(c, i) =>
              /\ tasks[c][i].retries + 1 <= MaxRetries + 1
              /\ tasks[c][i].state \in {"PENDING", "RETRY"}
              /\ tasks[c][i].retries > 0 => tasks[c][i].state = "RETRY"
              /\ tasks[c][i].state = "PENDING" => tasks[c][i].retries = 0]_vars

\* a task has failed for good, after its fourth execution
C3_Witness ==
    \E c \in CycleIds : \E i \in TaskIds(c) : tasks[c][i].state = "FAILURE"

(***************************************************************************)
(* C4: whenever process_batch_results has run on a batch, the Sink was     *)
(* called iff some outcome handed to it has a signal other than HOLD:      *)
(* with none, the result is marked skipped and neither                     *)
(* publish_batch_complete nor save_batch_results is called; with one, both *)
(* are called.                                                             *)
(***************************************************************************)
Actionable(c) ==
    \E i \in 1..Len(batch[c].results) :
        /\ batch[c].results[i].kind = "dict"
        /\ batch[c].results[i].signal_type # "HOLD"

C4_PublishGate ==
    \A c \in CycleIds :
        batch[c].ran =>
            /\ ~Actionable(c) => /\ batch[c].ret.status = "skipped"
                                 /\ batch[c].sink = <<>>
            /\ Actionable(c) => /\ batch[c].ret.status # "skipped"
                                /\ SinkOps(c) = <<"publish_batch_complete",
                                                  "save_batch_results">>

\* a batch with a HOLD and a SELL outcome, and no BUY, went to the Sink
C4_Witness ==
    /\ \E c \in CycleIds :
          /\ batch[c].ran /\ Len(batch[c].sink) = 2
          /\ \E i, j \in 1..Len(batch[c].results) :
                /\ batch[c].results[i].signal_type = "HOLD"
                /\ batch[c].results[j].signal_type = "SELL"
          /\ \A i \in 1..Len(batch[c].results) : batch[c].results[i].signal_type # "BUY"

(***************************************************************************)
(* C5: the summary of every aggregate has expected_results equal to        *)
(* N * M, the product of the sizes of the configured lists, whichever      *)
(* process ran the trigger and the callback.                               *)
(***************************************************************************)
C5_ExpectedIsNTimesM ==
    \A c \in CycleIds :
        batch[c].ran => Summary(c).expected_results = ConfiguredTasks

(***************************************************************************)
(* C6: in every aggregate, failed_results = expected_results -             *)
(* total_results and failed_results >= 0.                                  *)
(***************************************************************************)
C6_FailedNonNegative ==
    \A c \in CycleIds :
        batch[c].ran =>
            /\ Summary(c).failed_results =
                   Summary(c).expected_results - Summary(c).total_results
            /\ Summary(c).failed_results >= 0

(***************************************************************************)
(* C7: when a batch is over with exactly k >= 1 of its N * M tasks in       *)
(* FAILURE, its aggregate has total_results = N * M - k and                *)
(* failed_results = k, and the group of each symbol holds exactly the      *)
(* outcomes of the successful tasks of that symbol.                        *)
(***************************************************************************)
OutcomesOf(c, symbol) ==
    {tasks[c][i].result[1] : i \in {j \in Succeeded(c) : cycles[c].sigs[j].symbol = symbol}}

C7_PartialFailureCounts ==
    \A c \in CycleIds :
        (CycleOver(c) /\ Len(tasks[c]) = ConfiguredTasks /\ Failed(c) # {}) =>
            /\ batch[c].ran
            /\ Summary(c).total_results = ConfiguredTasks - Cardinality(Failed(c))
            /\ Summary(c).failed_results = Cardinality(Failed(c))
            /\ \A g \in 1..Len(Groups(c)) :
                  Range(Groups(c)[g].strategies) = OutcomesOf(c, Groups(c)[g].symbol)
            /\ \A i \in Succeeded(c) :
                  \E g \in 1..Len(Groups(c)) : Groups(c)[g].symbol = cycles[c].sigs[i].symbol


(***************************************************************************)
(* C8 as claimed: a task whose data fetch failed yields no outcome: it is  *)
(* retried and ends in FAILURE.                                            *)
(***************************************************************************)
C8_FetchErrorFailsTask ==
    \A c \in CycleIds : \A i \in TaskIds(c) :
        tasks[c][i].fetch = "error" =>
            /\ tasks[c][i].state \in {"RETRY", "FAILURE"}
            /\ tasks[c][i].result = <<>>

(***************************************************************************)
(* C8 amended: a fetch error is caught inside the strategy; the task ends  *)
(* in SUCCESS on that execution with a HOLD outcome of price 0, which is   *)
(* handed to the callback and counted in total_results like any other      *)
(* outcome; the error never fails the task or the chord.                   *)
(***************************************************************************)
C8_FetchErrorYieldsHold ==
    \A c \in CycleIds : \A i \in TaskIds(c) :
        tasks[c][i].fetch = "error" =>
            /\ tasks[c][i].state = "SUCCESS"
            /\ tasks[c][i].result =
                   <<ResultDict(cycles[c].sigs[i].strategy_class_path,
                                cycles[c].sigs[i].symbol, "HOLD", 0)>>
            /\ chord[c] # "chord_error" \/ Failed(c) # {}
            /\ batch[c].ran =>
                  /\ batch[c].results[i] = tasks[c][i].result[1]
                  /\ \E g \in 1..Len(Groups(c)) :
                        tasks[c][i].result[1] \in Range(Groups(c)[g].strategies)
                  /\ Summary(c).total_results = Len(tasks[c])

\* an aggregated batch holds the HOLD outcome of a task whose fetch failed,
\* next to the outcome of a task whose fetch worked
C8_Witness ==
    \E c \in CycleIds : \E i, j \in TaskIds(c) :
        /\ batch[c].ran
        /\ tasks[c][i].fetch = "error"
        /\ tasks[c][j].fetch = "ok"

(***************************************************************************)
(* C9: the list handed to process_batch_results holds the outcome of each  *)
(* header task that ended in SUCCESS, once, and no outcome for a task that *)
(* ended in FAILURE; total_results is the number of successful tasks.      *)
(***************************************************************************)
C9_OneOutcomePerSuccess ==
    \A c \in CycleIds :
        batch[c].ran =>
            /\ Len(SelectSeq(batch[c].results, Truthy)) = Cardinality(Succeeded(c))
            /\ \A i \in Succeeded(c) : batch[c].results[i] = tasks[c][i].result[1]
            /\ \A i \in Failed(c) : ~Truthy(batch[c].results[i])
            /\ Summary(c).total_results = Cardinality(Succeeded(c))

\* a batch of two successful tasks, for two symbols, has been aggregated
C9_Witness ==
    \E c \in CycleIds :
        /\ batch[c].ran
        /\ Cardinality(Succeeded(c)) = 2
        /\ Summary(c).total_results = 2
        /\ Len(Groups(c)) = 2

(***************************************************************************)
(* C10 as claimed: when publish_batch_complete or save_batch_results fails *)
(* for a batch, the cycle ends with an error that reaches the caller of    *)
(* trigger_batch_execution.                                                *)
(***************************************************************************)
SinkFailed(c) ==
    \E k \in 1..Len(batch[c].sink) : batch[c].sink[k].status = "failed"

C10_SinkFailurePropagates ==
    \A c \in CycleIds :
        SinkFailed(c) => /\ batch[c].ret.status = "raised"
                         /\ cycles[c].ret.status = "raised"

(***************************************************************************)
(* C10 amended: a failure of publish_batch_complete is caught: the call    *)
(* reports status "failed" with 0 subscribers, save_batch_results is still *)
(* called and the callback does not fail for it.  A failure of             *)
(* save_batch_results makes process_batch_results raise (the callback task *)
(* fails), but trigger_batch_execution has returned "triggered" before and *)
(* its caller gets no error.  Neither Sink call is made again.             *)
(***************************************************************************)
C10_SinkFailureHandling ==
    \A c \in CycleIds :
        batch[c].ran /\ batch[c].sink # <<>> =>
            LET pub == batch[c].sink[1]
                sav == batch[c].sink[2]
            IN  /\ SinkOps(c) = <<"publish_batch_complete", "save_batch_results">>
                /\ pub.status = "failed" => sav.arg.pubsub = 0
                /\ ~pub.raised
                /\ sav.status = "failed" <=> batch[c].ret.status = "raised"
                /\ sav.status = "failed" <=> chord[c] = "callback_failure"
                /\ sav.status = "success" <=> batch[c].ret.status = "saved"
                /\ cycles[c].ret.status = "triggered"

\* one batch whose publish failed was saved all the same, and the save of
\* another batch failed
C10_Witness ==
    \E c \in CycleIds, d \in CycleIds :
        /\ batch[c].ran /\ Len(batch[c].sink) = 2
        /\ batch[c].sink[1].status = "failed" /\ batch[c].ret.status = "saved"
        /\ batch[d].ran /\ Len(batch[d].sink) = 2
        /\ batch[d].sink[2].status = "failed" /\ batch[d].ret.status = "raised"

(***************************************************************************)
(* C11: for every batch, publish_batch_complete is called at most once and *)
(* save_batch_results at most once; for a batch on which the callback has  *)
(* run and that passed the gate, each has been called exactly once.        *)
(***************************************************************************)
IsSave(call) == call.op = "save_batch_results"
PublishCalls(c) == Len(SelectSeq(batch[c].sink, IsPublish))
SaveCalls(c) == Len(SelectSeq(batch[c].sink, IsSave))

C11_SinkAtMostOnce ==
    \A c \in CycleIds :
        /\ PublishCalls(c) <= 1
        /\ SaveCalls(c) <= 1
        /\ (batch[c].ran /\ Actionable(c)) => (PublishCalls(c) = 1 /\ SaveCalls(c) = 1)

(***************************************************************************)
(* C12 as claimed: with an empty list of symbols or of strategies,         *)
(* trigger_batch_execution submits no task, the Sink is never called, no   *)
(* error is raised, and the result is a skipped one that carries a count   *)
(* of expected outcomes equal to 0.                                        *)
(***************************************************************************)
EmptyConfiguration == cfg_symbols = <<>> \/ cfg_strategies = <<>>

\* the count of expected outcomes of a result of trigger_batch_execution,
\* under either of the names the program uses for it; -1 when it has none
ExpectedOutcomes(ret) ==
    IF "expected_results" \in DOMAIN ret THEN ret.expected_results
    ELSE IF "tasks_count" \in DOMAIN ret THEN ret.tasks_count
    ELSE -1

C12_EmptyBatchSkippedWithCount ==
    \A c \in CycleIds :
        EmptyConfiguration =>
            /\ tasks[c] = <<>> /\ batch[c].sink = <<>>
            /\ cycles[c].ret.status = "skipped"
            /\ ExpectedOutcomes(cycles[c].ret) = 0

(***************************************************************************)
(* C12 amended: with an empty list of symbols or of strategies, every call *)
(* of trigger_batch_execution builds no signature, submits no task and no  *)
(* chord, so that the callback and the Sink never run for it, raises no    *)
(* error, and returns exactly {status: skipped, reason: empty_batch}, a    *)
(* result without any count.                                               *)
(***************************************************************************)
C12_EmptyBatchSkipped ==
    \A c \in CycleIds :
        EmptyConfiguration =>
            /\ cycles[c].sigs = <<>> /\ tasks[c] = <<>>
            /\ chord[c] = "none"
            /\ batch[c] = NotRun
            /\ cycles[c].ret = [status |-> "skipped", reason |-> "empty_batch"]
            /\ ExpectedOutcomes(cycles[c].ret) = -1

\* one worker process has run two cycles with strategies and no symbol
C12_Witness ==
    /\ cfg_symbols = <<>> /\ cfg_strategies # <<>>
    /\ Len(cycles) = 2
    /\ \E p \in Procs : Len(mgr_strategy_class_paths[p]) = 2 * Len(cfg_strategies)
    /\ \A c \in CycleIds : cycles[c].ret.status = "skipped"

(***************************************************************************)
(* C13: every call of trigger_batch_execution builds the task set of the   *)
(* configuration, the N * M signatures of cfg_symbols and cfg_strategies   *)
(* numbered 1..N*M, and reports N * M tasks, whatever the cycles before it *)
(* did in the same worker process.                                         *)
(***************************************************************************)
C13_CyclesIndependent ==
    \A c \in CycleIds :
        /\ cycles[c].sigs =
               create_task_signatures_with_numbering(cfg_symbols, cfg_strategies)
        /\ cycles[c].ret.status # "raised" => Len(tasks[c]) = ConfiguredTasks
        /\ cycles[c].ret.status = "triggered" => cycles[c].ret.tasks_count = ConfiguredTasks

(***************************************************************************)
(* C14: create_task_signatures_with_numbering returns N * M signatures,    *)
(* symbol-major: the signature of the a-th symbol and the b-th strategy is *)
(* at position (a - 1) * M + b, which is also its task_number, so that the *)
(* numbers are 1, 2, ..., N * M in list order; every signature has         *)
(* total_tasks = N * M.                                                    *)
(***************************************************************************)
C14_BuildOrderAndNumbering ==
    (fn_call.fn = "create_task_signatures_with_numbering" /\ fn_ret # <<>>) =>
        LET symbols == fn_call.symbols
            paths == fn_call.strategy_class_paths
            n == Len(symbols)
            m == Len(paths)
            out == fn_ret[1]
        IN  /\ Len(out) = n * m
            /\ \A a \in 1..n : \A b \in 1..m :
                  out[(a - 1) * m + b] =
                      [strategy_class_path |-> paths[b], symbol |-> symbols[a],
                       task_number |-> (a - 1) * m + b, total_tasks |-> n * m]
            /\ \A k \in 1..Len(out) : out[k].task_number = k /\ out[k].total_tasks = n * m
            /\ \A j, k \in 1..Len(out) : j < k => out[j].task_number < out[k].task_number

\* the signatures of two distinct symbols and two distinct strategies
C14_Witness ==
    /\ fn_call.fn = "create_task_signatures_with_numbering" /\ fn_ret # <<>>
    /\ fn_call.symbols = <<"BTC-USD", "ETH-USD">>
    /\ fn_call.strategy_class_paths = <<"S1", "S2">>
    /\ Len(fn_ret[1]) = 4
    /\ fn_ret[1][2].symbol = "BTC-USD" /\ fn_ret[1][2].strategy_class_path = "S2"

(***************************************************************************)
(* C15: in every aggregate that aggregate_results returns, every outcome   *)
(* of a group has the symbol of the group, and no two groups have the same *)
(* symbol.                                                                 *)
(***************************************************************************)
C15_GroupsBySymbol ==
    \A r \in 1..Len(fn_ret) :
        fn_call.fn = "aggregate_results" =>
            LET groups == fn_ret[r].results
            IN  /\ \A g \in 1..Len(groups) : \A k \in 1..Len(groups[g].strategies) :
                      /\ groups[g].strategies[k].kind = "dict"
                      /\ groups[g].strategies[k].symbol = groups[g].symbol
                /\ \A g, h \in 1..Len(groups) :
                      groups[g].symbol = groups[h].symbol => g = h

\* the outcomes of a symbol arrived around the outcome of another symbol
C15_Witness ==
    /\ fn_call.fn = "aggregate_results" /\ Len(fn_ret) >= 1
    /\ fn_call.flat_results = <<ResultDict("S1", "BTC-USD", "BUY", 1),
                                ResultDict("S1", "ETH-USD", "SELL", 1),
                                ResultDict("S2", "BTC-USD", "HOLD", 1)>>
    /\ Len(fn_ret[1].results) = 2
    /\ Len(fn_ret[1].results[1].strategies) = 2

(***************************************************************************)
(* C16: a call of aggregate_results leaves the list it was given and the   *)
(* lists of the manager as they were, and returns the aggregate of that    *)
(* list: the counts of its summary, and one group for each symbol, in the  *)
(* order in which the symbols were first seen, with the outcomes of the    *)
(* symbol in the order of the list.  Called twice on the same list, with   *)
(* nothing in between, it returns two equal aggregates.                    *)
(***************************************************************************)
SameOrder == fn_call.order = [i \in 1..Len(fn_call.flat_results) |-> i]

\* the symbols of the outcomes of a list
SymbolsOf(input) ==
    {GetSymbol(input[i]) : i \in {j \in 1..Len(input) : Truthy(input[j])}} \ {""}

\* the symbols of a list in the order in which they are first seen
SymbolsAsSeen(input) ==
    CHOOSE seen \in [1..Cardinality(SymbolsOf(input)) -> SymbolsOf(input)] :
        \A g, h \in DOMAIN seen :
            g < h => \E i \in 1..Len(input) :
                        /\ Truthy(input[i]) /\ GetSymbol(input[i]) = seen[g]
                        /\ \A j \in 1..Len(input) :
                               (Truthy(input[j]) /\ GetSymbol(input[j]) = seen[h]) => i < j

AggregateOf(input, symbols, strategy_class_paths) ==
    LET valid == {i \in 1..Len(input) : Truthy(input[i])}
        expected == Len(symbols) * Len(strategy_class_paths)
        seen == SymbolsAsSeen(input)
        OutcomesFor(symbol) ==
            LET OfSymbol(x) == Truthy(x) /\ GetSymbol(x) = symbol
            IN  SelectSeq(input, OfSymbol)
    IN  [summary |-> [total_symbols |->
                          Cardinality({input[i].symbol : i \in {j \in valid :
                                                                  HasSymbolKey(input[j])}}),
                      total_strategies |-> Len(strategy_class_paths),
                      total_results |-> Cardinality(valid),
                      expected_results |-> expected,
                      failed_results |-> expected - Cardinality(valid)],
         results |-> [g \in DOMAIN seen |->
                         [symbol |-> seen[g], strategies |-> OutcomesFor(seen[g])]]]

C16_AggregateTwice ==
    [][(fn_call.fn = "aggregate_results" /\ fn_ret' # fn_ret) =>
          /\ fn_call' = fn_call
          /\ mgr_symbols' = mgr_symbols
          /\ mgr_strategy_class_paths' = mgr_strategy_class_paths
          /\ fn_ret'[Len(fn_ret')] =
                 AggregateOf(IF Len(fn_ret') = 1 \/ SameOrder THEN fn_call.flat_results
                             ELSE Reordered(fn_call.flat_results, fn_call.order),
                             mgr_symbols[1], mgr_strategy_class_paths[1])
          /\ (Len(fn_ret') = 2 /\ SameOrder) => fn_ret'[1] = fn_ret'[2]]_vars

\* a list of outcomes of two symbols, with an entry that is None, was
\* aggregated twice by a manager that holds the configured lists
C16_Witness ==
    /\ fn_call.fn = "aggregate_results" /\ Len(fn_ret) = 2 /\ SameOrder
    /\ mgr_symbols[1] # <<>>
    /\ Len(fn_call.flat_results) = 3
    /\ \E i \in 1..3 : ~Truthy(fn_call.flat_results[i])
    /\ Len(fn_ret[2].results) = 2
    /\ fn_ret[2].summary.failed_results = 2

(***************************************************************************)
(* C17: for any two arrival orders of the same list of outcomes,           *)
(* aggregate_results returns the same summary and groups for the same      *)
(* symbols, the group of a symbol holding the same outcomes the same       *)
(* number of times in both.                                                *)
(***************************************************************************)
GroupSymbols(aggregated) ==
    {aggregated.results[g].symbol : g \in 1..Len(aggregated.results)}

GroupOf(aggregated, symbol) ==
    aggregated.results[CHOOSE g \in 1..Len(aggregated.results) :
                           aggregated.results[g].symbol = symbol].strategies

Count(s, x) == Cardinality({i \in 1..Len(s) : s[i] = x})

SameBag(s, t) == \A x \in Range(s) \cup Range(t) : Count(s, x) = Count(t, x)

C17_OrderIndependent ==
    (fn_call.fn = "aggregate_results" /\ Len(fn_ret) = 2) =>
        /\ fn_ret[1].summary = fn_ret[2].summary
        /\ Len(fn_ret[1].results) = Len(fn_ret[2].results)
        /\ GroupSymbols(fn_ret[1]) = GroupSymbols(fn_ret[2])
        /\ \A symbol \in GroupSymbols(fn_ret[1]) :
              SameBag(GroupOf(fn_ret[1], symbol), GroupOf(fn_ret[2], symbol))

\* two arrival orders gave the groups in two different orders
C17_Witness ==
    /\ fn_call.fn = "aggregate_results" /\ Len(fn_ret) = 2 /\ ~SameOrder
    /\ Len(fn_ret[1].results) = 2
    /\ fn_ret[1].results # fn_ret[2].results
    /\ \E g \in 1..2 : Len(fn_ret[1].results[g].strategies) = 2

(***************************************************************************)
(* C18: whatever the interleaving of the calls of the workers, a lookup    *)
(* that does not miss returns the DataFrame that the last SETEX stored     *)
(* under the key of the request, which has not expired and was built for   *)
(* the symbol, period and interval of the request; the lookup itself,      *)
(* with Redis reachable or not, never makes the call raise.                *)
(***************************************************************************)
LooksUp(w) == calls[w].pc = "get" /\ calls'[w].pc # "get"

C18_GetUnderInterleaving ==
    [][\A w \in Workers : LooksUp(w) =>
          /\ calls'[w].pc = "done" =>
                \/ /\ calls'[w].outcome = "hit"
                   /\ writes[KeyOf(calls[w])].present
                   /\ calls'[w].ret = writes[KeyOf(calls[w])].value
                   /\ now < writes[KeyOf(calls[w])].at + CACHE_DURATION
                   /\ calls'[w].ret.symbol = calls[w].request.symbol
                   /\ calls'[w].ret.period = calls[w].request.period
                   /\ calls'[w].ret.interval = calls[w].request.interval
                \/ /\ calls'[w].outcome = "raised"
                   /\ calls[w].request.period \notin IntPeriods
          /\ calls'[w].pc \in {"done", "request"}]_vars

\* a worker got from the cache, some time later, what the other worker had
\* fetched and stored
C18_Witness ==
    \E v, w \in Workers :
        /\ calls[v].pc = "done" /\ calls[v].outcome = "fetched"
        /\ calls[w].pc = "done" /\ calls[w].outcome = "hit"
        /\ calls[w].ret = calls[v].ret
        /\ calls[w].at > calls[v].at

(***************************************************************************)
(* C19: two workers that miss the same key both fetch and both store: each *)
(* call returns the DataFrame it built, and the key holds one entry, that  *)
(* of the last SETEX, until it expires; it holds none once clear_cache has *)
(* deleted the key, until the next SETEX.                                  *)
(***************************************************************************)
C19_LastWriterWins ==
    /\ \A w \in Workers :
          (calls[w].pc = "done" /\ calls[w].outcome = "fetched") =>
              /\ calls[w].ret.symbol = calls[w].request.symbol
              /\ calls[w].ret.period = calls[w].request.period
              /\ calls[w].ret.interval = calls[w].request.interval
              /\ calls[w].ret.end_time <= calls[w].at
    /\ \A k \in CacheKeys :
          IF writes[k].present
          THEN redis_db[k] = [present |-> TRUE, value |-> pickle_dumps(writes[k].value),
                              expires_at |-> writes[k].at + CACHE_DURATION]
          ELSE redis_db[k] = NoEntry

\* both workers missed the same key, fetched at different times and stored;
\* the entry is the DataFrame of the worker that stored last, the older one
C19_Witness ==
    \E v, w \in Workers :
        /\ calls[v].pc = "done" /\ calls[v].outcome = "fetched"
        /\ calls[w].pc = "done" /\ calls[w].outcome = "fetched"
        /\ calls[v].request = calls[w].request
        /\ calls[v].ret.end_time < calls[w].ret.end_time
        /\ redis_db[KeyOf(calls[v])].present
        /\ redis_db[KeyOf(calls[v])].value = pickle_dumps(calls[v].ret)

(***************************************************************************)
(* C20 as claimed: an entry that a lookup returns is returned by every     *)
(* later lookup of its key until CACHE_DURATION seconds have passed since  *)
(* its SETEX, unless a SETEX under the key comes in between.               *)
(***************************************************************************)
Lookup(db, k, at) == get_from_cache(TRUE, db, k, at, TRUE)

\* the step is the store, under key k, of a call of fetch_historical_data
PutTo(k) ==
    \E w \in Workers : calls[w].pc = "save" /\ calls'[w].pc = "done" /\ KeyOf(calls[w]) = k

DeleteOf(k) ==
    \E w \in Workers : calls[w].pc = "delete" /\ calls'[w].pc = "idle" /\ k \in calls[w].keys

Steps(w) == calls'[w] # calls[w]

C21_CacheUnavailable ==
    [][/\ \A k \in CacheKeys : \A client, redis_ok \in BOOLEAN :
             ~(client /\ redis_ok) =>
                 /\ get_from_cache(client, redis_db, k, now, redis_ok) = <<>>
                 /\ save_to_cache(client, redis_db, k, Dataset(CHOOSE r \in CacheRequests : TRUE, now),
                                  now, redis_ok) = redis_db
       /\ \A w \in Workers :
             /\ (Steps(w) /\ ~calls[w].client) =>
                   /\ redis_db' = redis_db
                   /\ calls'[w].pc = "done" => calls'[w].outcome # "hit"
                   /\ (calls[w].pc = "get" /\ calls[w].request.period \in IntPeriods) =>
                         calls'[w].pc = "request"
             /\ (Steps(w) /\ calls[w].pc = "save") =>
                   /\ calls'[w].pc = "done"
                   /\ calls'[w].outcome = "fetched"
                   /\ calls'[w].ret = calls[w].df
                   /\ calls[w].seen[Len(calls[w].seen)] =>
                         calls'[w].ret = Dataset(calls[w].request, calls[w].df.end_time)]_vars

\* a worker without a client fetched and returned a DataFrame for a key
\* that the other worker had stored, and that was still in the cache
C21_Witness ==
    \E v, w \in Workers :
        /\ ~calls[w].client
        /\ calls[w].pc = "done" /\ calls[w].outcome = "fetched"
        /\ calls[v].pc = "done" /\ calls[v].outcome = "fetched"
        /\ calls[v].request = calls[w].request
        /\ calls[v].at < calls[w].ret.end_time
        /\ redis_db[KeyOf(calls[w])].present
        /\ redis_db[KeyOf(calls[w])].value = pickle_dumps(calls[v].ret)
        /\ now < redis_db[KeyOf(calls[w])].expires_at

(***************************************************************************)
(* C22: within one call of fetch_historical_data no request is sent to the *)
(* API when the lookup is a hit, and at most one when it is a miss.        *)
(***************************************************************************)
Requested(w) ==
    \/ calls[w].pc = "save"
    \/ calls[w].pc = "done" /\ calls[w].outcome \in {"hit", "raised"}

C22_UpstreamAtMostOnce ==
    \A w \in Workers :
        Requested(w) =>
            /\ calls[w].pc = "done" /\ calls[w].outcome = "hit" => calls[w].requests = 0
            /\ calls[w].requests <= 1

\* C22, amended: within one call of fetch_historical_data no request is sent
\* to the API when the lookup is a hit; when it is a miss at most three are
\* sent: a call that goes on to store a DataFrame has sent between one and
\* three, and a call that raises has sent three, or none when its period is
\* a string.
C22_UpstreamAtMostThrice ==
    \A w \in Workers :
        Requested(w) =>
            /\ calls[w].requests \in 0..3
            /\ calls[w].pc = "done" /\ calls[w].outcome = "hit" => calls[w].requests = 0
            /\ calls[w].pc = "save" => calls[w].requests \in 1..3
            /\ calls[w].pc = "done" /\ calls[w].outcome = "raised" =>
                   calls[w].requests =
                       IF calls[w].request.period \in IntPeriods THEN 3 ELSE 0

\* a call got a DataFrame and sent three requests, after a lookup that missed
C22_Witness ==
    \E w \in Workers : calls[w].pc = "save" /\ calls[w].requests = 3

(***************************************************************************)
(* C23: an entry is written only when a call whose fetch from the API      *)
(* succeeded (the last request it sent got a good response) stores its     *)
(* data under its key, as an entry valid for CACHE_DURATION from then on,  *)
(* whatever the key held, an expired entry included; when Redis is not     *)
(* available the store leaves the cache as it is; the only other change of *)
(* the cache is clear_cache, which writes nothing and deletes keys.  A call *)
(* that raises leaves the cache unchanged, and a lookup never returns an   *)
(* entry that has expired.                                                 *)
(***************************************************************************)
Stores(w) == calls[w].pc = "save" /\ calls'[w].pc = "done"

Expired(k) == redis_db[k].present /\ redis_db[k].expires_at <= now

FreshEntry(w) ==
    [present |-> TRUE, value |-> pickle_dumps(calls[w].df),
     expires_at |-> now + CACHE_DURATION]

C23_WrittenAfterFetch ==
    [][/\ \A k \in CacheKeys :
             redis_db'[k] # redis_db[k] =>
                 \/ \E w \in Workers : Stores(w) /\ KeyOf(calls[w]) = k
                 \/ /\ \E w \in Workers :
                          calls[w].pc = "delete" /\ calls'[w].pc = "idle" /\ k \in calls[w].keys
                    /\ redis_db'[k] = NoEntry
       /\ \A w \in Workers :
             /\ Stores(w) =>
                    /\ calls'[w].outcome = "fetched"
                    /\ \/ redis_db' = [redis_db EXCEPT ![KeyOf(calls[w])] = FreshEntry(w)]
                       \/ redis_db' = redis_db
                    /\ ~calls[w].client => redis_db' = redis_db
                    /\ redis_db' # redis_db => calls[w].seen[Len(calls[w].seen)]
             /\ Steps(w) /\ calls'[w].pc = "done" /\ calls'[w].outcome = "raised" =>
                    redis_db' = redis_db
             /\ LooksUp(w) /\ Expired(KeyOf(calls[w])) =>
                    ~(calls'[w].pc = "done" /\ calls'[w].outcome = "hit")]_vars

(***************************************************************************)
(* C24: of two entries stored at the same time, the one of the coarser     *)
(* resolution is valid for longer.                                         *)
(***************************************************************************)
ResolutionMinutes(interval) ==
    CASE interval = "5m" -> 5
      [] interval = "15m" -> 15
      [] interval = "1d" -> 1440

Ttl(k) == redis_db[k].expires_at - now

C24_TtlByResolution ==
    fn_call.fn = "_save_to_cache" =>
        \A i, j \in 1..Len(fn_ret) :
            /\ redis_db[fn_ret[i]].present /\ redis_db[fn_ret[j]].present
            /\ ResolutionMinutes(fn_call.requests[i].interval) >
                   ResolutionMinutes(fn_call.requests[j].interval)
            => Ttl(fn_ret[i]) > Ttl(fn_ret[j])

(***************************************************************************)
(* C25: what process_batch_results hands to publish_batch_complete and to  *)
(* save_batch_results is the aggregate as aggregate_results returned it.   *)
(***************************************************************************)
C25_AggregateUnchanged ==
    \A c \in CycleIds :
        batch[c].ran =>
            \A k \in 1..Len(batch[c].sink) :
                batch[c].sink[k].arg = batch[c].aggregated[1]

(***************************************************************************)
(* C26: the first retry of a task is scheduled after the base delay of one *)
(* second, and each later retry after twice the delay of the retry before. *)
(***************************************************************************)
Countdowns(i) == fn_ret[i].countdowns

C26_DelayDoubles ==
    fn_call.fn = "autoretry" =>
        \A i \in 1..MaxTotalTasks :
            \A n \in 1..Len(Countdowns(i)) :
                Countdowns(i)[n] = IF n = 1 THEN 1 ELSE 2 * Countdowns(i)[n - 1]

\* C26, amended: a task is retried at most MaxRetries times, and its n-th
\* retry is scheduled after a whole number of seconds between 0 and a bound
\* that starts at one second and doubles from one retry to the next.
C26_DelayBoundDoubles ==
    fn_call.fn = "autoretry" =>
        \A i \in 1..MaxTotalTasks :
            /\ Len(Countdowns(i)) <= MaxRetries
            /\ \A n \in 1..Len(Countdowns(i)) :
                   Countdowns(i)[n] \in 0..Pow(2, n - 1)

\* a task failed after its three retries, the last of which waited for the
\* whole bound of four seconds and the second of which did not wait at all
C26_Witness ==
    /\ fn_call.fn = "autoretry"
    /\ \E i \in 1..MaxTotalTasks :
           /\ fn_ret[i].task.state = "FAILURE"
           /\ Countdowns(i) = <<1, 0, 4>>

(***************************************************************************)
(* C27: in the aggregate that aggregate_results returns, the groups come   *)
(* in the order in which their symbols are first seen in the list of       *)
(* outcomes, and the group of a symbol holds the outcomes of the symbol in *)
(* the order in which they arrived.                                        *)
(***************************************************************************)
\* the list given to the r-th call
InputOf(r) ==
    IF r = 1 THEN fn_call.flat_results
    ELSE Reordered(fn_call.flat_results, fn_call.order)

Arrivals(input, symbol) ==
    {i \in 1..Len(input) : Truthy(input[i]) /\ GetSymbol(input[i]) = symbol}

FirstSeen(input, symbol) ==
    CHOOSE i \in Arrivals(input, symbol) : \A j \in Arrivals(input, symbol) : i <= j

OutcomesInArrivalOrder(input, symbol) ==
    LET OfSymbol(x) == Truthy(x) /\ GetSymbol(x) = symbol
    IN  SelectSeq(input, OfSymbol)

C27_FirstSeenOrder ==
    \A r \in 1..Len(fn_ret) :
        fn_call.fn = "aggregate_results" =>
            LET groups == fn_ret[r].results
                input == InputOf(r)
            IN  /\ \A g \in 1..Len(groups) :
                      /\ Arrivals(input, groups[g].symbol) # {}
                      /\ groups[g].strategies =
                             OutcomesInArrivalOrder(input, groups[g].symbol)
                /\ \A g, h \in 1..Len(groups) :
                      g < h => FirstSeen(input, groups[g].symbol) <
                                  FirstSeen(input, groups[h].symbol)

\* ETH-USD was seen first and BTC-USD second, with a second outcome of
\* BTC-USD arriving before the one that comes first in the other order
C27_Witness ==
    /\ fn_call.fn = "aggregate_results" /\ Len(fn_ret) = 2
    /\ InputOf(2) = <<ResultDict("S1", "ETH-USD", "SELL", 1),
                      ResultDict("S2", "BTC-USD", "HOLD", 1),
                      ResultDict("S1", "BTC-USD", "BUY", 1)>>
    /\ fn_ret[2].results =
           <<[symbol |-> "ETH-USD",
              strategies |-> <<ResultDict("S1", "ETH-USD", "SELL", 1)>>],
             [symbol |-> "BTC-USD",
              strategies |-> <<ResultDict("S2", "BTC-USD", "HOLD", 1),
                               ResultDict("S1", "BTC-USD", "BUY", 1)>>]>>

(***************************************************************************)
(* C28: while there is a StrategyManager instance, every construction made *)
(* since the last reset_instance returned it, and its lists are the        *)
(* concatenation, in call order, of all that add_symbols and               *)
(* add_strategies were given since then, through any handle.               *)
(***************************************************************************)
Log == singleton.log

LastReset ==
    IF \E i \in 1..Len(Log) : Log[i].op = "reset_instance"
    THEN CHOOSE i \in 1..Len(Log) :
             /\ Log[i].op = "reset_instance"
             /\ \A j \in 1..Len(Log) : Log[j].op = "reset_instance" => j <= i
    ELSE 0

\* the handles that the constructions before the last reset_instance returned
StaleHandles ==
    1..Cardinality({i \in 1..LastReset : Log[i].op = "StrategyManager"})

LiveHandles == (1..Len(singleton.handles)) \ StaleHandles

RECURSIVE ConcatArgs(_, _)
ConcatArgs(indices, i) ==
    IF i > Len(Log) THEN <<>>
    ELSE (IF i \in indices THEN Log[i].arg ELSE <<>>) \o ConcatArgs(indices, i + 1)

\* what op was given since the last reset_instance through the handles hs
AddedThrough(op, hs) ==
    ConcatArgs({i \in (LastReset + 1)..Len(Log) :
                   Log[i].op = op /\ Log[i].handle \in hs}, 1)

AnyHandle == 1..Len(singleton.handles)

TheInstance == singleton.objects[singleton.instance]

C28_SingletonAccumulates ==
    singleton.instance # 0 =>
        /\ \A h \in LiveHandles : singleton.handles[h] = singleton.instance
        /\ TheInstance.symbols = AddedThrough("add_symbols", AnyHandle)
        /\ TheInstance.strategy_class_paths = AddedThrough("add_strategies", AnyHandle)

\* C28, amended: while there is a StrategyManager instance, every
\* construction made since the last reset_instance returned it, and its
\* lists are the concatenation, in call order, of all that add_symbols and
\* add_strategies were given through the handles obtained since then; a
\* handle obtained before the reset refers to another object, and what is
\* added through it does not reach the instance.
C28_SingletonAccumulatesLive ==
    singleton.instance # 0 =>
        /\ singleton.initialized /\ TheInstance.attrs
        /\ \A h \in LiveHandles : singleton.handles[h] = singleton.instance
        /\ \A h \in StaleHandles : singleton.handles[h] # singleton.instance
        /\ TheInstance.symbols = AddedThrough("add_symbols", LiveHandles)
        /\ TheInstance.strategy_class_paths = AddedThrough("add_strategies", LiveHandles)

\* two constructions after a reset_instance, and symbols added through the
\* handles of both
C28_Witness ==
    /\ LastReset > 0
    /\ Cardinality(LiveHandles) = 2
    /\ \E i, j \in 1..Len(Log) :
           /\ i < j /\ Log[i].op = "add_symbols" /\ Log[j].op = "add_symbols"
           /\ Log[i].handle \in LiveHandles /\ Log[j].handle \in LiveHandles
           /\ Log[i].handle # Log[j].handle
           /\ TheInstance.symbols = Log[i].arg \o Log[j].arg

(***************************************************************************)
(* C29: for every batch that passes the gate, publish_batch_complete is    *)
(* called first and save_batch_results after it, whether the publishing    *)
(* succeeded or not, and the document given to save_batch_results records  *)
(* the subscriber count that publish_batch_complete returned, which is 0   *)
(* for a publishing that failed.                                           *)
(***************************************************************************)
C29_NotifyBeforePersist ==
    \A c \in CycleIds :
        \* while the callback runs too, no save without the publish before it
        /\ \A k \in 1..Len(batch[c].sink) :
               IsSave(batch[c].sink[k]) => (k > 1 /\ IsPublish(batch[c].sink[k - 1]))
        /\ (batch[c].ran /\ Actionable(c)) =>
               /\ Len(batch[c].sink) = 2
               /\ IsPublish(batch[c].sink[1]) /\ IsSave(batch[c].sink[2])
               /\ batch[c].sink[2].arg.pubsub = batch[c].sink[1].subscriber_count
               /\ batch[c].sink[1].status = "failed" => batch[c].sink[2].arg.pubsub = 0

\* a batch was published to one subscriber and then saved with that count
C29_Witness ==
    \E c \in CycleIds :
        /\ batch[c].ran /\ Actionable(c)
        /\ batch[c].sink[1].status = "success"
        /\ batch[c].sink[1].subscriber_count = 1
        /\ batch[c].sink[2].status = "success"
        /\ batch[c].sink[2].arg.pubsub = 1

(***************************************************************************)
(* C30: in every aggregate that aggregate_results returns, whatever the    *)
(* list it was given, the sizes of the groups add up to total_results and  *)
(* there are total_symbols groups.                                         *)
(***************************************************************************)
GroupSizes(aggregated) ==
    [g \in 1..Len(aggregated.results) |-> Len(aggregated.results[g].strategies)]

C30_SummaryMatchesGroups ==
    \A r \in 1..Len(fn_ret) :
        fn_call.fn = "aggregate_results" =>
            /\ SumSeq(GroupSizes(fn_ret[r])) = fn_ret[r].summary.total_results
            /\ Len(fn_ret[r].results) = fn_ret[r].summary.total_symbols

(***************************************************************************)
(* C31: the payload given to publish_batch_complete has the summary and    *)
(* the groups of the aggregate, and its total_results is the total_results *)
(* of that summary.                                                        *)
(***************************************************************************)
C31_PayloadMatchesAggregate ==
    \A c \in CycleIds :
        batch[c].ran =>
            \A k \in 1..Len(batch[c].sink) :
                IsPublish(batch[c].sink[k]) =>
                    /\ batch[c].sink[k].arg.summary = Summary(c)
                    /\ batch[c].sink[k].arg.results = Groups(c)
                    /\ batch[c].sink[k].arg.total_results = Summary(c).total_results

(***************************************************************************)
(* C32: a batch that was triggered while an earlier batch was still in     *)
(* flight is aggregated at most once, exactly once when its callback has   *)
(* run to its end, and what is aggregated then are the results of its own  *)
(* header tasks.                                                           *)
(***************************************************************************)
InFlight(c) == chord[c] \in {"header", "callback_queued"}

\* the runs of process_batch_results for cycle c that aggregated its results
Aggregations(c) ==
    IF PublishCalls(c) > 0 THEN PublishCalls(c)
    ELSE IF batch[c].ran THEN 1 ELSE 0

C32_OverlappingBatchesSeparate ==
    \A c, d \in CycleIds :
        (d < c /\ InFlight(d)) =>
            /\ Aggregations(c) <= 1
            /\ batch[c].ran =>
                   /\ Aggregations(c) = 1
                   /\ batch[c].results = HeaderResults(tasks[c])

(***************************************************************************)
(* C33: a call of fetch_historical_data whose lookup missed sends at most  *)
(* three requests to the API, one after the other; every attempt before    *)
(* the last failed; it sleeps 1 s after the first failed attempt and 2 s   *)
(* after the second, and not after the third; it goes on to store its data *)
(* when the last attempt succeeded and raises when three have failed.      *)
(***************************************************************************)
\* the requests of the call of worker w are over
LoopLeft(w) ==
    \/ calls[w].pc = "save"
    \/ /\ calls[w].pc = "done" /\ calls[w].outcome = "raised"
       /\ calls[w].request.period \in IntPeriods

C33_ThreeAttemptsWithWaits ==
    \A w \in Workers :
        LoopLeft(w) =>
            LET n == calls[w].requests
                seen == calls[w].seen
            IN  /\ n \in 1..3 /\ Len(seen) = n
                /\ \A k \in 1..(n - 1) : ~seen[k]
                /\ calls[w].waits = SubSeq(<<1, 2>>, 1, IF seen[n] THEN n - 1 ELSE 2)
                /\ calls[w].pc = "save" <=> seen[n]
                /\ calls[w].pc = "done" => n = 3

(***************************************************************************)
(* C34: whatever the interleaving of the calls of the workers, a caller    *)
(* that adds columns to the DataFrame its call returned changes neither    *)
(* the cache nor what another worker holds, and every lookup that hits, by *)
(* any worker, returns the DataFrame as it was when it was stored, without *)
(* the columns.                                                            *)
(***************************************************************************)
\* the step is a change, by its caller, of the DataFrame that worker w holds
Mutates(w) ==
    /\ calls[w].pc = "done" /\ calls[w].outcome \in {"hit", "fetched"}
    /\ calls'[w].pc = "done" /\ calls'[w].outcome = calls[w].outcome
    /\ calls'[w].ret # calls[w].ret

C34_CallerMutationIsolated ==
    [][\A w \in Workers :
          /\ Mutates(w) =>
                 /\ redis_db' = redis_db
                 /\ \A v \in Workers \ {w} : calls'[v] = calls[v]
          /\ (calls[w].pc = "get" /\ calls'[w].pc = "done" /\ calls'[w].outcome = "hit") =>
                 /\ writes[KeyOf(calls[w])].present
                 /\ calls'[w].ret = writes[KeyOf(calls[w])].value
                 /\ calls'[w].ret.added = <<>>]_vars

\* a worker fetched and stored a DataFrame and MotherCandleStrategy, its
\* caller, assigned 'PriceToEMA' and 'Action' to it; some time later a lookup
\* of the other worker returned the DataFrame without these columns
C34_Witness ==
    \E v, w \in Workers :
        /\ v # w
        /\ calls[w].pc = "done" /\ calls[w].outcome = "fetched"
        /\ calls[w].request.period = "30"
        /\ calls[w].ret.added = ColumnsWritten("MotherCandleStrategy")
        /\ calls[v].pc = "done" /\ calls[v].outcome = "hit"
        /\ calls[v].request = calls[w].request
        /\ calls[v].at > calls[w].mutated_at
        /\ calls[v].ret = [calls[w].ret EXCEPT !.added = <<>>]

(***************************************************************************)
(* C35: the list that get_strategies returns has no path twice and no "*"; *)
(* it holds the declared paths and, when "*" is declared, the discovered   *)
(* ones; its paths come in the order of their first occurrence among the   *)
(* declared paths followed by the discovered ones, so that no path that    *)
(* was only discovered comes before a declared one.                        *)
(***************************************************************************)
\* the entries of the text between commas, without the spaces around them
Entries(text) ==
    {strip(part) : part \in Range(split(text, ","))} \ {<<>>}

Explicit(text) == Entries(text) \ {<<"*">>}

\* the index of the first entry of the text that is path, the discovered
\* paths being counted after the entries of the text
FirstOccurrence(text, discovered, path) ==
    LET parts == split(text, ",")
        Starts == {i \in 1..Len(parts) : strip(parts[i]) = path}
    IN  IF Starts # {}
        THEN CHOOSE i \in Starts : \A j \in Starts : i <= j
        ELSE Len(parts) + (CHOOSE d \in 1..Len(discovered) : discovered[d] = path)

C35_StrategiesDeduped ==
    (fn_call.fn = "get_strategies" /\ fn_ret # <<>>) =>
        LET ret == fn_ret[1]
            text == fn_call.strategies
            discovered == fn_call.discovered
        IN  /\ \A i, j \in 1..Len(ret) : ret[i] = ret[j] => i = j
            /\ <<"*">> \notin Range(ret)
            /\ Range(ret) = Explicit(text) \cup
                                (IF <<"*">> \in Entries(text) THEN Range(discovered) ELSE {})
            /\ \A i, j \in 1..Len(ret) :
                   i < j => /\ FirstOccurrence(text, discovered, ret[i]) <
                                  FirstOccurrence(text, discovered, ret[j])
                            /\ ret[j] \in Explicit(text) => ret[i] \in Explicit(text)

\* "b,*,b" with the classes a and b discovered gives b, then a
C35_Witness ==
    /\ fn_call.fn = "get_strategies"
    /\ fn_call.strategies = <<"b", ",", "*", ",", "b">>
    /\ fn_call.discovered = <<<<"a">>, <<"b">>>>
    /\ fn_ret = <<<< <<"b">>, <<"a">> >>>>

(***************************************************************************)
(* C36: whatever the interleaving of the threads that call get_database,   *)
(* a connection is established at most once, and all calls that return     *)
(* have returned the same database handle.                                 *)
(***************************************************************************)
Returned(t) == mongo.threads[t].pc = "done" /\ mongo.threads[t].outcome = "returned"

C36_ConnectOnce ==
    /\ mongo.connects <= 1
    /\ \A t, u \in Threads :
           (Returned(t) /\ Returned(u)) => mongo.threads[t].ret = mongo.threads[u].ret

(***************************************************************************)
(* C37: execute_all_strategies_parallel returns only when every registered *)
(* strategy has finished; what it returns holds exactly one StrategyResult *)
(* for each strategy whose execute did not raise and none for one that     *)
(* raised; and while the call has not returned, whatever has raised, a     *)
(* step of a strategy or of the call is possible.                          *)
(***************************************************************************)
ResultsOf(i) == {k \in DOMAIN pool.ret : pool.ret[k].of = i}

C37_OneResultPerFinishedStrategy ==
    /\ pool.pc = "returned" =>
          /\ DOMAIN pool.futures = DOMAIN pool.strategies
          /\ \A i \in DOMAIN pool.strategies :
                 /\ pool.futures[i] \in Done
                 /\ Cardinality(ResultsOf(i)) = (IF pool.futures[i] = "ok" THEN 1 ELSE 0)
                 /\ \A k \in ResultsOf(i) : pool.ret[k].strategy_name = pool.strategies[i]
          /\ \A k \in DOMAIN pool.ret : pool.ret[k].of \in DOMAIN pool.strategies
    /\ pool.pc = "collecting" =>
          \/ \E i \in DOMAIN pool.futures : ENABLED worker_run(i)
          \/ \E i \in DOMAIN pool.futures : ENABLED strategy_execute(i)
          \/ \E i \in DOMAIN pool.futures : ENABLED as_completed(i)
          \/ ENABLED return_results

\* the call has returned, one strategy had raised and later ones returned
C37_Witness ==
    /\ pool.pc = "returned"
    /\ Len(pool.strategies) = MaxRegistered
    /\ pool.futures[1] = "raised"
    /\ Len(pool.ret) = MaxRegistered - 1

(***************************************************************************)
(* C38: after notify calls that all returned normally, every batch has     *)
(* completed_count = success_count + failure_count, and the summary that   *)
(* get_summary returns has total_created equal to the sum of the           *)
(* created_count of the batches, total_completed equal to the sum of their *)
(* completed_count, and total_completed = total_successful + total_failed. *)
(***************************************************************************)
SummaryConsistent(summary) ==
    LET stats == summary.batch_statistics
    IN  /\ summary.total_created = SumCount(stats, "created_count", DOMAIN stats)
        /\ summary.total_completed = SumCount(stats, "completed_count", DOMAIN stats)
        /\ summary.total_completed = summary.total_successful + summary.total_failed

C38_MonitorCountsConsistent ==
    monitor.raised = 0 =>
        /\ \A b \in DOMAIN monitor.batch_stats :
               monitor.batch_stats[b].completed_count
                   = monitor.batch_stats[b].success_count + monitor.batch_stats[b].failure_count
        /\ \A k \in DOMAIN monitor.summary : SummaryConsistent(monitor.summary[k])

\* a summary of two batches, one with a success and one with a failure
C38_Witness ==
    /\ monitor.raised = 0
    /\ monitor.summary # <<>>
    /\ Len(monitor.created_tasks) >= 1
    /\ \E b, c \in DOMAIN monitor.batch_stats :
           /\ b # c
           /\ monitor.batch_stats[b].success_count = 1
           /\ monitor.batch_stats[c].failure_count = 1

====
